---- MODULE Spec2Model ----
(***************************************************************************)
(* Model of the validation and reconciliation engine of blood-test-parser: *)
(*   src/validator.py             BloodTestValidator                       *)
(*   src/google_sheets_service.py GoogleSheetsService                      *)
(*                                                                         *)
(* Text is a sequence of one-character strings, so that str.lower(),       *)
(* str.upper(), str.strip() and the `in` substring test are computed       *)
(* character by character as Python computes them.  Numbers are exact      *)
(* decimals counted in tenths (12.6 is 126 tenths, the integer 3 is 30     *)
(* tenths) and scores are exact fractions num/den.                         *)
(***************************************************************************)
EXTENDS Integers, Sequences, FiniteSets, TLC

VARIABLES
    workbook,   \* the spreadsheet: sequence of tabs [title, data]; data[1] is the header row
    failing,    \* the calls of the collaborator, <<call, tab title>>, that raise HttpError
    found,      \* the last find_patient_row call: its arguments and what it returned
    cmp,        \* the last _calculate_field_accuracy call: its arguments and outcome
    val,        \* the last _validate_single_result call: its arguments and its ValidationResult
    col,        \* the last _column_index_to_letter call: its argument and the letters returned
    upd,        \* the last update_patient_data call: its arguments, the batch writes, the result
    run,        \* the last validate_results call: the documents and the ValidationResults
    rep         \* the last generate_validation_report call: the results given and the report

vars == <<workbook, failing, found, cmp, val, col, upd, run, rep>>

(***************************************************************************)
(* Text                                                                    *)
(***************************************************************************)
UpperAlpha == <<"A","B","C","D","E","F","G","H","I","J","K","L","M",
                "N","O","P","Q","R","S","T","U","V","W","X","Y","Z">>
LowerAlpha == <<"a","b","c","d","e","f","g","h","i","j","k","l","m",
                "n","o","p","q","r","s","t","u","v","w","x","y","z">>

UpperLetters == {UpperAlpha[i] : i \in 1..26}
LowerLetters == {LowerAlpha[i] : i \in 1..26}
ToLowerMap == [c \in UpperLetters |-> LowerAlpha[CHOOSE i \in 1..26 : UpperAlpha[i] = c]]
ToUpperMap == [c \in LowerLetters |-> UpperAlpha[CHOOSE i \in 1..26 : LowerAlpha[i] = c]]

\* str.lower() on one character
LowerChar(c) == IF c \in UpperLetters THEN ToLowerMap[c] ELSE IF c = "Ó" THEN "ó" ELSE c

\* str.upper() on one character
UpperChar(c) == IF c \in LowerLetters THEN ToUpperMap[c] ELSE IF c = "ó" THEN "Ó" ELSE c

\* str.lower()
Lower(s) == [i \in 1..Len(s) |-> LowerChar(s[i])]

\* str.upper()
Upper(s) == [i \in 1..Len(s) |-> UpperChar(s[i])]

\* the characters str.strip() removes (space and tab stand for Python's whitespace)
IsSpace(c) == c \in {" ", "\t"}

\* str.strip(): drop leading and trailing whitespace
Strip(s) ==
    LET keep == {i \in 1..Len(s) : ~IsSpace(s[i])}
    IN  IF keep = {} THEN <<>>
        ELSE LET lo == CHOOSE i \in keep : \A j \in keep : i <= j
                 hi == CHOOSE i \in keep : \A j \in keep : j <= i
             IN  SubSeq(s, lo, hi)

\* Python's `frag in s` for strings
Contains(s, frag) ==
    \E i \in 0..(Len(s) - Len(frag)) : SubSeq(s, i + 1, i + Len(frag)) = frag

(***************************************************************************)
(* Field values: null, str, int, float (src/models.py, JSON field maps)    *)
(***************************************************************************)
PyNone     == [t |-> "null",  n |-> 0, s |-> <<>>]
PyStr(s)   == [t |-> "str",   n |-> 0, s |-> s]
PyInt(n)   == [t |-> "int",   n |-> n, s |-> <<>>]
PyFloat(q) == [t |-> "float", n |-> q, s |-> <<>>]   \* q counts tenths

IsNone(v) == v.t = "null"
IsStr(v)  == v.t = "str"
IsInt(v)  == v.t = "int"
IsNum(v)  == v.t \in {"int", "float"}        \* isinstance(v, (int, float))

\* the number a numeric value denotes, in tenths
NumVal(v) == IF v.t = "int" THEN v.n * 10 ELSE v.n

Abs(x) == IF x < 0 THEN -x ELSE x

(***************************************************************************)
(* Exact fractions for scores                                              *)
(***************************************************************************)
RECURSIVE Gcd(_, _)
Gcd(a, b) == IF b = 0 THEN a ELSE Gcd(b, a % b)

Rat(num, den) ==
    LET g == Gcd(Abs(num), Abs(den))
        d == IF g = 0 THEN 1 ELSE g
    IN  [num |-> (IF den < 0 THEN -num ELSE num) \div d, den |-> Abs(den) \div d]

RatAdd(p, q) == Rat(p.num * q.den + q.num * p.den, p.den * q.den)
RatSub(p, q) == Rat(p.num * q.den - q.num * p.den, p.den * q.den)
RatMul(p, q) == Rat(p.num * q.num, p.den * q.den)
RatLeq(p, q) == p.num * q.den <= q.num * p.den
RatLt(p, q)  == p.num * q.den < q.num * p.den
RatMax(p, q) == IF RatLeq(p, q) THEN q ELSE p
RatMin(p, q) == IF RatLeq(p, q) THEN p ELSE q
RatInt(n)    == [num |-> n, den |-> 1]

(***************************************************************************)
(* BloodTestValidator._calculate_field_accuracy  (src/validator.py 73-116) *)
(* An outcome is a returned score or a raised exception.                   *)
(***************************************************************************)
Returned(score) == [raised |-> FALSE, score |-> score]
Raised          == [raised |-> TRUE,  score |-> RatInt(0)]

\* mutant: the strings are compared with their case
StringAccuracyCaseSensitive(e, a) ==
    IF Strip(e.s) = Strip(a.s)
    THEN Returned(RatInt(100))
    ELSE Returned(RatInt(0))

\* lines 91-96: both str
StringAccuracy(e, a) ==
    IF Lower(Strip(e.s)) = Lower(Strip(a.s))
    THEN Returned(RatInt(100))
    ELSE Returned(RatInt(0))

\* mutant: the relative difference is not turned into a percentage
RelativeAccuracyNoPercent(diff, absExpected) ==
    IF absExpected = 0 THEN Raised
    ELSE LET relative_diff == Rat(diff, absExpected)
             accuracy      == RatMax(RatInt(0), RatSub(RatInt(100), relative_diff))
         IN  Returned(RatMin(RatInt(100), accuracy))

\* mutant: the accuracy is not clamped at 0
RelativeAccuracyUnclamped(diff, absExpected) ==
    IF absExpected = 0 THEN Raised
    ELSE Returned(RatMin(RatInt(100), RatSub(RatInt(100), Rat(diff * 100, absExpected))))

\* lines 104-109: diff / abs(expected) * 100, then max(0, 100 - .), then min(100.0, .)
\* the division raises ZeroDivisionError on a zero divisor
RelativeAccuracy(diff, absExpected) ==
    IF absExpected = 0 THEN Raised
    ELSE LET relative_diff == Rat(diff * 100, absExpected)
             accuracy      == RatMax(RatInt(0), RatSub(RatInt(100), relative_diff))
         IN  Returned(RatMin(RatInt(100), accuracy))

\* mutant: an expected value of 0 scores 0 whatever the actual value is
NumericAccuracyZeroExpected(e, a) ==
    IF NumVal(e) = 0
    THEN Returned(RatInt(0))
    ELSE RelativeAccuracy(Abs(NumVal(e) - NumVal(a)), Abs(NumVal(e)))

\* lines 99-109: both int or float
NumericAccuracy(e, a) ==
    IF NumVal(e) = 0
    THEN Returned(IF NumVal(a) = 0 THEN RatInt(100) ELSE RatInt(0))
    ELSE RelativeAccuracy(Abs(NumVal(e) - NumVal(a)), Abs(NumVal(e)))

\* lines 112-113: both int (placed after the numeric branch in the source)
IntegerAccuracy(e, a) ==
    Returned(IF e.n = a.n THEN RatInt(100) ELSE RatInt(0))

\* line 116: expected_value == actual_value on values of different types
DefaultAccuracy(e, a) ==
    Returned(IF e = a THEN RatInt(100) ELSE RatInt(0))

CalculateFieldAccuracy(e, a) ==
    IF IsNone(e) /\ IsNone(a) THEN Returned(RatInt(100))
    ELSE IF IsNone(e) \/ IsNone(a) THEN Returned(RatInt(0))
    ELSE IF IsStr(e) /\ IsStr(a) THEN StringAccuracy(e, a)
    ELSE IF IsNum(e) /\ IsNum(a) THEN NumericAccuracy(e, a)
    ELSE IF IsInt(e) /\ IsInt(a) THEN IntegerAccuracy(e, a)
    ELSE DefaultAccuracy(e, a)

(***************************************************************************)
(* BloodTestValidator._validate_single_result  (src/validator.py 118-173)  *)
(* A field map is a function from the set of its keys to field values.     *)
(***************************************************************************)
\* __init__: accuracy_threshold: float = 80.0
DefaultThreshold == 80

\* mutant: an absent key reads as the number 0
GetAbsentAsZero(map, field) == IF field \in DOMAIN map THEN map[field] ELSE PyInt(0)

\* dict.get(field): None for an absent key
Get(map, field) == IF field \in DOMAIN map THEN map[field] ELSE PyNone

\* mutant: the reserved 'error' key is not discarded
AllFieldsKeepError(extracted_data, expected_data) ==
    (DOMAIN expected_data) \cup (DOMAIN extracted_data)

\* lines 135-138: set(expected.keys()) | set(extracted.keys()), then discard('error')
AllFields(extracted_data, expected_data) ==
    ((DOMAIN expected_data) \cup (DOMAIN extracted_data)) \ {"error"}

\* lines 140-145: one comparator call per field of all_fields
FieldOutcomes(extracted_data, expected_data) ==
    [field \in AllFields(extracted_data, expected_data) |->
        CalculateFieldAccuracy(Get(expected_data, field), Get(extracted_data, field))]

RECURSIVE SumScores(_, _)
SumScores(accs, fields) ==
    IF fields = {} THEN RatInt(0)
    ELSE LET f == CHOOSE x \in fields : TRUE
         IN  RatAdd(accs[f], SumScores(accs, fields \ {f}))

\* line 156: sum(field_accuracies.values()) / len(field_accuracies) if field_accuracies else 0.0
OverallAccuracy(field_accuracies) ==
    IF DOMAIN field_accuracies = {} THEN RatInt(0)
    ELSE LET total == SumScores(field_accuracies, DOMAIN field_accuracies)
         IN  Rat(total.num, total.den * Cardinality(DOMAIN field_accuracies))

\* mutant: the reserved 'error' key of the extracted map counts as an extracted field
MissingFieldsKeepError(extracted_data, expected_data) ==
    (DOMAIN expected_data) \ (DOMAIN extracted_data)

\* lines 159-162
MissingFields(extracted_data, expected_data) ==
    (DOMAIN expected_data) \ ((DOMAIN extracted_data) \ {"error"})

\* lines 159-163
ExtraFields(extracted_data, expected_data) ==
    ((DOMAIN extracted_data) \ {"error"}) \ (DOMAIN expected_data)

\* line 172: overall_accuracy >= self.accuracy_threshold
IsValid(overall_accuracy, threshold) == RatLeq(RatInt(threshold), overall_accuracy)

\* the ValidationResult, or a raise when a comparator call raises
ValidateSingleResult(extracted_data, expected_data, threshold) ==
    LET outcomes == FieldOutcomes(extracted_data, expected_data)
        field_accuracies == [f \in DOMAIN outcomes |-> outcomes[f].score]
        overall_accuracy == OverallAccuracy(field_accuracies)
    IN  [raised            |-> \E f \in DOMAIN outcomes : outcomes[f].raised,
         overall_accuracy  |-> overall_accuracy,
         field_accuracies  |-> field_accuracies,
         missing_fields    |-> MissingFields(extracted_data, expected_data),
         extra_fields      |-> ExtraFields(extracted_data, expected_data),
         field_differences |-> {f \in DOMAIN field_accuracies :
                                   RatLt(field_accuracies[f], RatInt(100))},
         is_valid          |-> IsValid(overall_accuracy, threshold)]

\* an optional value: None or the value
None    == <<>>
Some(v) == <<v>>

(***************************************************************************)
(* BloodTestValidator.validate_results  (src/validator.py 175-203)         *)
(* A document is [filename, extracted, expected]: extracted is its entry   *)
(* of extraction_results, expected is what _load_expected_data finds for   *)
(* the filename, None or the field map of the JSON file.                   *)
(***************************************************************************)
\* lines 43-71: _load_expected_data(filename)
LoadExpectedData(doc) == doc.expected

\* lines 198-199: the ValidationResult of one document, with its filename
ResultOf(doc, threshold) ==
    [filename |-> doc.filename]
        @@ ValidateSingleResult(doc.extracted, LoadExpectedData(doc)[1], threshold)

\* mutant: the loop ends at the first document that is skipped
RECURSIVE ValidateResultsStopAtSkipped(_, _)
ValidateResultsStopAtSkipped(docs, threshold) ==
    IF docs = <<>> THEN <<>>
    ELSE IF "error" \in DOMAIN Head(docs).extracted THEN <<>>
    ELSE IF LoadExpectedData(Head(docs)) = None THEN <<>>
    ELSE <<ResultOf(Head(docs), threshold)>>
         \o ValidateResultsStopAtSkipped(Tail(docs), threshold)

\* lines 185-203: the loop over extraction_results.items(), in the order of the dict
RECURSIVE ValidateResults(_, _)
ValidateResults(docs, threshold) ==
    IF docs = <<>> THEN <<>>
    ELSE IF "error" \in DOMAIN Head(docs).extracted
    THEN ValidateResults(Tail(docs), threshold)
    ELSE IF LoadExpectedData(Head(docs)) = None
    THEN ValidateResults(Tail(docs), threshold)
    ELSE <<ResultOf(Head(docs), threshold)>> \o ValidateResults(Tail(docs), threshold)

(***************************************************************************)
(* BloodTestValidator.generate_validation_report                           *)
(* (src/validator.py 205-273)                                              *)
(***************************************************************************)
\* line 220: sum(1 for r in validation_results if r.is_valid)
ValidFiles(validation_results) ==
    Cardinality({i \in 1..Len(validation_results) : validation_results[i].is_valid})

\* sum(...) of a list of scores
RECURSIVE SumList(_)
SumList(scores) ==
    IF scores = <<>> THEN RatInt(0) ELSE RatAdd(Head(scores), SumList(Tail(scores)))

\* lines 224-225: max(..., key) and min(..., key) return the first result with the
\* greatest, with the least, overall accuracy
BestResult(validation_results) ==
    validation_results[CHOOSE i \in 1..Len(validation_results) :
        /\ \A j \in 1..Len(validation_results) :
              RatLeq(validation_results[j].overall_accuracy, validation_results[i].overall_accuracy)
        /\ \A j \in 1..(i - 1) :
              RatLt(validation_results[j].overall_accuracy, validation_results[i].overall_accuracy)]

WorstResult(validation_results) ==
    validation_results[CHOOSE i \in 1..Len(validation_results) :
        /\ \A j \in 1..Len(validation_results) :
              RatLeq(validation_results[i].overall_accuracy, validation_results[j].overall_accuracy)
        /\ \A j \in 1..(i - 1) :
              RatLt(validation_results[i].overall_accuracy, validation_results[j].overall_accuracy)]

\* lines 228-230: the union of the keys of field_accuracies
ReportFields(validation_results) ==
    UNION {DOMAIN validation_results[i].field_accuracies : i \in 1..Len(validation_results)}

\* lines 234-235: the scores of one field, over the results that have it
RECURSIVE FieldScores(_, _)
FieldScores(validation_results, field) ==
    IF validation_results = <<>> THEN <<>>
    ELSE (IF field \in DOMAIN Head(validation_results).field_accuracies
          THEN <<Head(validation_results).field_accuracies[field]>>
          ELSE <<>>)
         \o FieldScores(Tail(validation_results), field)

\* lines 236-242: field_stats
FieldStats(validation_results) ==
    [field \in ReportFields(validation_results) |->
        LET field_accuracies == FieldScores(validation_results, field)
            total == SumList(field_accuracies)
        IN  [average_accuracy |-> Rat(total.num, total.den * Len(field_accuracies)),
             min_accuracy |-> CHOOSE x \in {field_accuracies[i] : i \in 1..Len(field_accuracies)} :
                                 \A i \in 1..Len(field_accuracies) : RatLeq(x, field_accuracies[i]),
             max_accuracy |-> CHOOSE x \in {field_accuracies[i] : i \in 1..Len(field_accuracies)} :
                                 \A i \in 1..Len(field_accuracies) : RatLeq(field_accuracies[i], x),
             total_samples |-> Len(field_accuracies)]]

\* line 269: the threshold written into 'problematic_fields'
ProblematicBelow == 80

\* lines 262-272: detailed_results
DetailedResults(validation_results) ==
    [i \in 1..Len(validation_results) |->
        LET r == validation_results[i]
        IN  [filename |-> r.filename,
             accuracy |-> r.overall_accuracy,
             is_valid |-> r.is_valid,
             missing_fields |-> r.missing_fields,
             extra_fields |-> r.extra_fields,
             problematic_fields |-> {field \in DOMAIN r.field_accuracies :
                                       RatLt(r.field_accuracies[field], RatInt(ProblematicBelow))}]]

\* line 216: {"error": "No validation results to report"}
NoResultsMarker == [kind |-> "error", raised |-> FALSE, summary |-> None]

\* lines 219-273: the statistics and the report; the divisions by total_files raise
\* ZeroDivisionError on an empty list
FullReport(validation_results, threshold) ==
    LET total_files == Len(validation_results)
        valid_files == ValidFiles(validation_results)
        total       == SumList([i \in 1..total_files |->
                                   validation_results[i].overall_accuracy])
    IN  IF total_files = 0
        THEN [kind |-> "report", raised |-> TRUE, summary |-> None]
        ELSE [kind |-> "report", raised |-> FALSE,
              summary |-> Some(
                [total_files |-> total_files,
                 valid_files |-> valid_files,
                 invalid_files |-> total_files - valid_files,
                 success_rate |-> Rat(valid_files * 100, total_files),
                 average_accuracy |-> Rat(total.num, total.den * total_files),
                 accuracy_threshold |-> threshold,
                 best_performance |-> [filename |-> BestResult(validation_results).filename,
                                       accuracy |-> BestResult(validation_results).overall_accuracy],
                 worst_performance |-> [filename |-> WorstResult(validation_results).filename,
                                        accuracy |-> WorstResult(validation_results).overall_accuracy],
                 field_statistics |-> FieldStats(validation_results),
                 detailed_results |-> DetailedResults(validation_results)])]

\* mutant: the statistics are computed for an empty list too
GenerateValidationReportUnguarded(validation_results, threshold) ==
    FullReport(validation_results, threshold)

\* lines 215-273: generate_validation_report
GenerateValidationReport(validation_results, threshold) ==
    IF validation_results = <<>> THEN NoResultsMarker
    ELSE FullReport(validation_results, threshold)

(***************************************************************************)
(* GoogleSheetsService  (src/google_sheets_service.py)                     *)
(* An optional value is <<>> (None) or <<v>>.  Column indices are 0-based  *)
(* as in the source: cell i of a row r is r[i + 1].  A tab's data[k] is    *)
(* spreadsheet row k, so data[1] is the header row.                        *)
(***************************************************************************)
\* the header fragment that denotes the identity column (line 268)
FILIACION == <<"F","I","L","I","A","C","I","O","N">>

\* a call of the spreadsheet collaborator raises HttpError
Fails(call, title) == <<call, title>> \in failing

\* mutant: plain base 26, the quotient is carried without the - 1
RECURSIVE ColumnLetterLoopPlainBase26(_, _)
ColumnLetterLoopPlainBase26(index, result) ==
    IF index >= 0
    THEN ColumnLetterLoopPlainBase26(IF index < 26 THEN -1 ELSE index \div 26,
                                     <<UpperAlpha[(index % 26) + 1]>> \o result)
    ELSE result

\* lines 381-387: _column_index_to_letter
RECURSIVE ColumnLetterLoop(_, _)
ColumnLetterLoop(index, result) ==
    IF index >= 0
    THEN ColumnLetterLoop((index \div 26) - 1, <<UpperAlpha[(index % 26) + 1]>> \o result)
    ELSE result

ColumnIndexToLetter(index) == ColumnLetterLoop(index, <<>>)

\* the collaborator's reading of a column name in a range such as A:AC
RECURSIVE LetterToIndexLoop(_, _)
LetterToIndexLoop(letters, acc) ==
    IF letters = <<>> THEN acc - 1
    ELSE LetterToIndexLoop(Tail(letters),
            acc * 26 + (CHOOSE i \in 1..26 : UpperAlpha[i] = Head(letters)))

LetterToIndex(letters) == LetterToIndexLoop(letters, 0)

\* line 182: `header and str(header).strip()`
NonEmptyHeader(header) == header # <<>> /\ Strip(header) # <<>>

\* lines 180-183: index of the last non-empty header, 0 when there is none
LastColIndex(headers) ==
    LET filled == {i \in 0..(Len(headers) - 1) : NonEmptyHeader(headers[i + 1])}
    IN  IF filled = {} THEN 0
        ELSE CHOOSE i \in filled : \A j \in filled : j <= i

\* mutant: a blank header cell counts as a header
DetectDataRangeNoTrim(tab) ==
    IF Fails("header", tab.title) THEN <<"Z">>
    ELSE IF tab.data = <<>> \/ tab.data[1] = <<>> THEN <<"Z">>
    ELSE ColumnIndexToLetter(Len(tab.data[1]) - 1)

\* lines 148-195: _detect_data_range; the range A:<letters> is given by its letters
DetectDataRange(tab) ==
    IF Fails("header", tab.title) THEN <<"Z">>
    ELSE IF tab.data = <<>> \/ tab.data[1] = <<>> THEN <<"Z">>
    ELSE ColumnIndexToLetter(LastColIndex(tab.data[1]))

\* lines 108-146: get_spreadsheet_data; the rows of the tab cut to the columns of the range
GetSpreadsheetData(tab) ==
    LET width == LetterToIndex(DetectDataRange(tab)) + 1
    IN  IF Fails("values", tab.title)
        THEN [raised |-> TRUE, values |-> <<>>]
        ELSE [raised |-> FALSE,
              values |-> [r \in 1..Len(tab.data) |->
                            SubSeq(tab.data[r], 1,
                                   IF Len(tab.data[r]) < width THEN Len(tab.data[r]) ELSE width)]]

\* lines 243-244
FullName1(nombre, apellidos) == Strip(Lower(nombre \o <<" ">> \o apellidos))
\* mutant: the reversed order is not searched
FullName2SameOrder(nombre, apellidos) == FullName1(nombre, apellidos)

FullName2(nombre, apellidos) == Strip(Lower(apellidos \o <<" ">> \o nombre))

\* line 268: `cell and 'FILIACION' in str(cell).upper()`
IsFiliacionHeader(cell) == cell # <<>> /\ Contains(Upper(cell), FILIACION)

\* lines 265-270: the first header cell that names the identity column
FiliacionCol(header_row) ==
    LET hits == {i \in 0..(Len(header_row) - 1) : IsFiliacionHeader(header_row[i + 1])}
    IN  IF hits = {} THEN None
        ELSE Some(CHOOSE i \in hits : \A j \in hits : i <= j)

\* line 277: enumerate(data[1:], start=2)
FirstDataRow == 2

\* lines 278-281: the row has the identity cell and it equals one of the two names
RowMatches(row, filiacion_col, full_name_1, full_name_2) ==
    /\ Len(row) > filiacion_col
    /\ LET filiacion_value == Strip(Lower(row[filiacion_col + 1]))
       IN  filiacion_value = full_name_1 \/ filiacion_value = full_name_2

\* mutant: the scan of a tab stops at its first matching row
RECURSIVE ScanRowsStopAtFirst(_, _, _, _, _, _)
ScanRowsStopAtFirst(data, row_index, sheet_name, filiacion_col, full_name_1, full_name_2) ==
    IF row_index > Len(data) THEN <<>>
    ELSE IF RowMatches(data[row_index], filiacion_col, full_name_1, full_name_2)
    THEN <<[sheet |-> sheet_name, row |-> row_index]>>
    ELSE ScanRowsStopAtFirst(data, row_index + 1, sheet_name, filiacion_col,
                             full_name_1, full_name_2)

\* mutant: a row without the identity cell ends the scan of its tab
RECURSIVE ScanRowsStopAtRagged(_, _, _, _, _, _)
ScanRowsStopAtRagged(data, row_index, sheet_name, filiacion_col, full_name_1, full_name_2) ==
    IF row_index > Len(data) THEN <<>>
    ELSE IF Len(data[row_index]) <= filiacion_col THEN <<>>
    ELSE (IF RowMatches(data[row_index], filiacion_col, full_name_1, full_name_2)
          THEN <<[sheet |-> sheet_name, row |-> row_index]>>
          ELSE <<>>)
         \o ScanRowsStopAtRagged(data, row_index + 1, sheet_name, filiacion_col,
                                 full_name_1, full_name_2)

\* lines 277-283: the (sheet_name, row_index) pairs one tab appends, in row order
RECURSIVE ScanRows(_, _, _, _, _, _)
ScanRows(data, row_index, sheet_name, filiacion_col, full_name_1, full_name_2) ==
    IF row_index > Len(data) THEN <<>>
    ELSE (IF RowMatches(data[row_index], filiacion_col, full_name_1, full_name_2)
          THEN <<[sheet |-> sheet_name, row |-> row_index]>>
          ELSE <<>>)
         \o ScanRows(data, row_index + 1, sheet_name, filiacion_col, full_name_1, full_name_2)

\* mutant: the header row is compared like a data row
SheetMatchesFromHeader(tab, full_name_1, full_name_2) ==
    LET read == GetSpreadsheetData(tab)
    IN  IF read.raised THEN <<>>
        ELSE IF read.values = <<>> THEN <<>>
        ELSE LET filiacion_col == FiliacionCol(read.values[1])
             IN  IF filiacion_col = None THEN <<>>
                 ELSE ScanRows(read.values, 1, tab.title,
                               filiacion_col[1], full_name_1, full_name_2)

\* lines 255-287: the body of the loop over the tabs, for one tab
SheetMatches(tab, full_name_1, full_name_2) ==
    LET read == GetSpreadsheetData(tab)
    IN  IF read.raised THEN <<>>
        ELSE IF read.values = <<>> THEN <<>>
        ELSE LET filiacion_col == FiliacionCol(read.values[1])
             IN  IF filiacion_col = None THEN <<>>
                 ELSE ScanRows(read.values, FirstDataRow, tab.title,
                               filiacion_col[1], full_name_1, full_name_2)

\* lines 264-274: the filiacion_col each tab's turn of the loop ends with; None also for
\* a tab whose read raised or returned no row
FiliacionCols(sheets) ==
    [t \in 1..Len(sheets) |->
        LET read == GetSpreadsheetData(sheets[t])
        IN  IF read.raised \/ read.values = <<>> THEN None
            ELSE FiliacionCol(read.values[1])]

\* line 126: the range get_spreadsheet_data detects for each tab it is asked for
DetectedRanges(sheets) == [t \in 1..Len(sheets) |-> DetectDataRange(sheets[t])]

\* mutant: the list of matches is kept from the previous call
StaleMatches == found.message.locations

\* line 249: all_matches = [], a fresh list in every call
InitialMatches == <<>>

\* mutant: a tab without rows or without identity column ends the loop over the tabs
RECURSIVE AllMatchesStopAtSkipped(_, _, _, _)
AllMatchesStopAtSkipped(sheets, i, full_name_1, full_name_2) ==
    IF i > Len(sheets) THEN <<>>
    ELSE LET read == GetSpreadsheetData(sheets[i])
         IN  IF ~read.raised /\ (read.values = <<>> \/ FiliacionCol(read.values[1]) = None)
             THEN <<>>
             ELSE SheetMatches(sheets[i], full_name_1, full_name_2)
                  \o AllMatchesStopAtSkipped(sheets, i + 1, full_name_1, full_name_2)

\* lines 251-287: what the loop over the tabs appends, from tab i on
RECURSIVE AllMatches(_, _, _, _)
AllMatches(sheets, i, full_name_1, full_name_2) ==
    IF i > Len(sheets) THEN <<>>
    ELSE SheetMatches(sheets[i], full_name_1, full_name_2)
         \o AllMatches(sheets, i + 1, full_name_1, full_name_2)

\* the status messages of find_patient_row, by their fixed text and their parts
Message(kind, name, locations) == [kind |-> kind, name |-> name, locations |-> locations]

\* mutant: the first match is returned when there are several
HandleResultsFirstMatch(all_matches, full_name_1) ==
    IF Len(all_matches) = 0
    THEN [raised |-> FALSE, row |-> None, sheet |-> None,
          message |-> Message("Patient not found in any sheet", full_name_1, <<>>)]
    ELSE [raised |-> FALSE, row |-> Some(all_matches[1].row), sheet |-> Some(all_matches[1].sheet),
          message |-> Message("Patient found in sheet", <<>>, all_matches)]

\* mutant: the last match is returned when there are several
HandleResultsLastMatch(all_matches, full_name_1) ==
    IF Len(all_matches) = 0
    THEN [raised |-> FALSE, row |-> None, sheet |-> None,
          message |-> Message("Patient not found in any sheet", full_name_1, <<>>)]
    ELSE [raised |-> FALSE, row |-> Some(all_matches[Len(all_matches)].row),
          sheet |-> Some(all_matches[Len(all_matches)].sheet),
          message |-> Message("Patient found in sheet", <<>>, all_matches)]

\* lines 290-299: the result for a list of matches
HandleResults(all_matches, full_name_1) ==
    IF Len(all_matches) = 0
    THEN [raised |-> FALSE, row |-> None, sheet |-> None,
          message |-> Message("Patient not found in any sheet", full_name_1, <<>>)]
    ELSE IF Len(all_matches) = 1
    THEN [raised |-> FALSE, row |-> Some(all_matches[1].row), sheet |-> Some(all_matches[1].sheet),
          message |-> Message("Patient found in sheet", <<>>, all_matches)]
    ELSE [raised |-> FALSE, row |-> None, sheet |-> None,
          message |-> Message("Multiple patients found with same name", full_name_1, all_matches)]

\* mutant: a tab whose read raises ends the search with the error outcome
FindPatientRowAbortOnReadError(sheets, nombre, apellidos) ==
    IF Fails("sheets", "") \/ \E t \in 1..Len(sheets) : GetSpreadsheetData(sheets[t]).raised
    THEN [raised |-> FALSE, row |-> None, sheet |-> None,
          message |-> Message("Error searching for patient", <<>>, <<>>)]
    ELSE IF sheets = <<>>
    THEN [raised |-> FALSE, row |-> None, sheet |-> None,
          message |-> Message("No sheets found in spreadsheet", <<>>, <<>>)]
    ELSE HandleResults(InitialMatches \o AllMatches(sheets, 1, FullName1(nombre, apellidos),
                                                    FullName2(nombre, apellidos)),
                       FullName1(nombre, apellidos))

\* mutant: a workbook without tabs is not told apart from a search without match
FindPatientRowNoSheetsCheck(sheets, nombre, apellidos) ==
    IF Fails("sheets", "")
    THEN [raised |-> FALSE, row |-> None, sheet |-> None,
          message |-> Message("Error searching for patient", <<>>, <<>>)]
    ELSE HandleResults(InitialMatches \o AllMatches(sheets, 1, FullName1(nombre, apellidos),
                                                    FullName2(nombre, apellidos)),
                       FullName1(nombre, apellidos))

\* mutant: without the handler of lines 301-303 the failure of the listing of the tabs
\* leaves the call as an exception
FindPatientRowNoHandler(sheets, nombre, apellidos) ==
    IF Fails("sheets", "")
    THEN [raised |-> TRUE, row |-> None, sheet |-> None, message |-> Message("", <<>>, <<>>)]
    ELSE IF sheets = <<>>
    THEN [raised |-> FALSE, row |-> None, sheet |-> None,
          message |-> Message("No sheets found in spreadsheet", <<>>, <<>>)]
    ELSE HandleResults(InitialMatches \o AllMatches(sheets, 1, FullName1(nombre, apellidos),
                                                    FullName2(nombre, apellidos)),
                       FullName1(nombre, apellidos))

\* lines 235-303: find_patient_row; every path ends in a return, the handler of lines
\* 301-303 included, so no exception leaves the call
FindPatientRow(sheets, nombre, apellidos) ==
    IF Fails("sheets", "")
    THEN [raised |-> FALSE, row |-> None, sheet |-> None,
          message |-> Message("Error searching for patient", <<>>, <<>>)]
    ELSE IF sheets = <<>>
    THEN [raised |-> FALSE, row |-> None, sheet |-> None,
          message |-> Message("No sheets found in spreadsheet", <<>>, <<>>)]
    ELSE HandleResults(InitialMatches \o AllMatches(sheets, 1, FullName1(nombre, apellidos),
                                                    FullName2(nombre, apellidos)),
                       FullName1(nombre, apellidos))

(***************************************************************************)
(* GoogleSheetsService.update_patient_data                                 *)
(* (src/google_sheets_service.py 305-379)                                  *)
(***************************************************************************)
\* lines 21-44: JSON key and spreadsheet column label, in the order of the dict
COLUMN_MAPPING == <<
    [key |-> "HEMOGLOBINA",
     label |-> <<"H","b"," ","(","g","/","d","l",")"," ","1","2","-","1","8">>],
    [key |-> "HEMATOCRITO",
     label |-> <<"H","t","o"," ","(","%",")"," ","3","6","-","5","0">>],
    [key |-> "VCM",
     label |-> <<"V","C","M"," ","(","f","l",")"," ","(","7","0","-","9","8",")">>],
    [key |-> "ADE",
     label |-> <<"A","D","E"," ","(",">","1","6",",","5",")">>],
    [key |-> "PLAQUETAS",
     label |-> <<"P","l","a","q","u","e","t","a","s"," ","(","x","1","0","^","3","/","µ","L",")"," ","1","0","0","-","4","5","0">>],
    [key |-> "LEUCOCITOS",
     label |-> <<"L","e","u","c","o","s"," ","(","x","1","0","^","3","/","µ","L",")"," ","5","-","1","2">>],
    [key |-> "EOSINOFILOS_TOTALES",
     label |-> <<"E","o","."," ","T","o","t","a","l","e","s"," ","(","m","a","y","o","r"," ","o"," ","="," ","4","5","0",")">>],
    [key |-> "EOSINOFILOS_PORCENTAJE",
     label |-> <<"E","o"," ","(","%",")"," ","(","m","a","y","o","r"," ","o"," ","="," ","a"," ","5",")">>],
    [key |-> "GLUCOSA",
     label |-> <<"G","l","u","."," ","(","m","g","/","d","l",")"," ","6","0","-","1","1","0">>],
    [key |-> "CREATININA",
     label |-> <<"C","r","e","a","t","i","n","i","n","a"," ","(","m","g","/","d","l",")">>],
    [key |-> "ALT",
     label |-> <<"A","L","T"," ","(","U","/","L",")"," ",">","4","5">>],
    [key |-> "AST",
     label |-> <<"A","S","T"," ","(","U","/","L",")"," ",">","3","7">>],
    [key |-> "GGT",
     label |-> <<"G","G","T"," ","(","U","/","L",")"," ",">"," ","5","5">>],
    [key |-> "COLESTEROL",
     label |-> <<"C","o","l","."," ","T"," ","(","1","0","0","-","2","0","0",")">>],
    [key |-> "FERRITINA",
     label |-> <<"F","e","r","r","i","t","i","n","a"," ","(","1","5","-","1","2","0",")">>],
    [key |-> "VIH",
     label |-> <<"V","I","H">>],
    [key |-> "VHC",
     label |-> <<"V","H","C">>],
    [key |-> "VHA",
     label |-> <<"V","H","A">>],
    [key |-> "LUES",
     label |-> <<"L","u","e","s">>],
    [key |-> "STRONGYLOIDES",
     label |-> <<"S","T","R","O","N","G","Y","L","O","I","D","E","S">>],
    [key |-> "SARAMPION",
     label |-> <<"S","A","R","A","M","P","I","Ó","N">>],
    [key |-> "SCHISTOSOMA",
     label |-> <<"S","E","R","O","L"," ","S","C","H","I","S","T","O","S","O","M","A">>] >>

\* mutant: the last header cell that contains the label is taken
ColIndexLast(header_row, spreadsheet_column) ==
    LET hits == {i \in 0..(Len(header_row) - 1) :
                    /\ header_row[i + 1] # <<>>
                    /\ Contains(Lower(header_row[i + 1]), Lower(spreadsheet_column))}
    IN  IF hits = {} THEN None
        ELSE Some(CHOOSE i \in hits : \A j \in hits : j <= i)

\* mutant: the column positions of the workbook's first tab are used for every tab
ColIndexOfFirstTab(header_row, spreadsheet_column) ==
    IF workbook = <<>> \/ workbook[1].data = <<>> THEN None
    ELSE LET first_header == workbook[1].data[1]
             hits == {i \in 0..(Len(first_header) - 1) :
                         /\ first_header[i + 1] # <<>>
                         /\ Contains(Lower(first_header[i + 1]), Lower(spreadsheet_column))}
         IN  IF hits = {} THEN None
             ELSE Some(CHOOSE i \in hits : \A j \in hits : i <= j)

\* lines 333-337: the first header cell with
\* `header and spreadsheet_column.lower() in str(header).lower()`
ColIndex(header_row, spreadsheet_column) ==
    LET hits == {i \in 0..(Len(header_row) - 1) :
                    /\ header_row[i + 1] # <<>>
                    /\ Contains(Lower(header_row[i + 1]), Lower(spreadsheet_column))}
    IN  IF hits = {} THEN None
        ELSE Some(CHOOSE i \in hits : \A j \in hits : i <= j)

\* the col_index each field of COLUMN_MAPPING gets in its turn of the loop
ColIndices(header_row) ==
    [k \in 1..Len(COLUMN_MAPPING) |-> ColIndex(header_row, COLUMN_MAPPING[k].label)]

\* mutant: every numeric value is scaled
TransformEveryField(json_key, value) ==
    IF IsNum(value) THEN [value EXCEPT !.n = value.n * 1000] ELSE value

\* lines 343-344: value * 1000 for EOSINOFILOS_TOTALES when int or float
Transform(json_key, value) ==
    IF json_key = "EOSINOFILOS_TOTALES" /\ IsNum(value)
    THEN [value EXCEPT !.n = value.n * 1000]
    ELSE value

\* mutant: the entry addresses the row below the given one
UpdateEntryRowBelow(sheet_name, col_letter, row_number, value) ==
    [sheet |-> sheet_name, column |-> col_letter, row |-> row_number + 1, value |-> value]

\* lines 347-354: {'range': "'<sheet_name>'!<col_letter><row_number>", 'values': [[value]]}
UpdateEntry(sheet_name, col_letter, row_number, value) ==
    [sheet |-> sheet_name, column |-> col_letter, row |-> row_number, value |-> value]

\* mutant: an entry is appended for every header cell that contains the label
RECURSIVE BuildUpdatesPerHeaderCell(_, _, _, _, _)
BuildUpdatesPerHeaderCell(k, header_row, sheet_name, row_number, blood_test_data) ==
    IF k > Len(COLUMN_MAPPING) THEN <<>>
    ELSE LET json_key == COLUMN_MAPPING[k].key
             cells    == SelectSeq([i \in 1..Len(header_row) |-> i - 1],
                                   LAMBDA i : /\ header_row[i + 1] # <<>>
                                              /\ Contains(Lower(header_row[i + 1]),
                                                          Lower(COLUMN_MAPPING[k].label)))
         IN  (IF /\ json_key \in DOMAIN blood_test_data
                 /\ ~IsNone(blood_test_data[json_key])
              THEN [p \in 1..Len(cells) |->
                       UpdateEntry(sheet_name, ColumnIndexToLetter(cells[p]), row_number,
                                   Transform(json_key, blood_test_data[json_key]))]
              ELSE <<>>)
             \o BuildUpdatesPerHeaderCell(k + 1, header_row, sheet_name, row_number,
                                          blood_test_data)

\* lines 331-354: the entries the loop over COLUMN_MAPPING appends, from field k on
RECURSIVE BuildUpdates(_, _, _, _, _)
BuildUpdates(k, header_row, sheet_name, row_number, blood_test_data) ==
    IF k > Len(COLUMN_MAPPING) THEN <<>>
    ELSE LET json_key  == COLUMN_MAPPING[k].key
             col_index == ColIndex(header_row, COLUMN_MAPPING[k].label)
         IN  (IF /\ col_index # None
                 /\ json_key \in DOMAIN blood_test_data
                 /\ ~IsNone(blood_test_data[json_key])
              THEN <<UpdateEntry(sheet_name, ColumnIndexToLetter(col_index[1]), row_number,
                                 Transform(json_key, blood_test_data[json_key]))>>
              ELSE <<>>)
             \o BuildUpdates(k + 1, header_row, sheet_name, row_number, blood_test_data)

\* the tabs of the workbook that carry a title
TabsNamed(sheets, sheet_name) == {t \in 1..Len(sheets) : sheets[t].title = sheet_name}

\* line 320: get_spreadsheet_data(spreadsheet_id, sheet_name); a range in a tab the
\* workbook does not have is refused by the collaborator with HttpError
ReadSheet(sheets, sheet_name) ==
    IF TabsNamed(sheets, sheet_name) = {}
    THEN [raised |-> TRUE, values |-> <<>>]
    ELSE GetSpreadsheetData(sheets[CHOOSE t \in TabsNamed(sheets, sheet_name) : TRUE])

DigitChars == <<"0","1","2","3","4","5","6","7","8","9">>

\* the decimal digits of a natural number
RECURSIVE Digits(_)
Digits(n) ==
    IF n < 10 THEN <<DigitChars[n + 1]>>
    ELSE Digits(n \div 10) \o <<DigitChars[(n % 10) + 1]>>

\* what a cell shows after a value was entered with valueInputOption USER_ENTERED
CellText(value) ==
    IF IsStr(value) THEN value.s
    ELSE IF IsNone(value) THEN <<>>
    ELSE LET sign == IF value.n < 0 THEN <<"-">> ELSE <<>>
             size == Abs(value.n)
         IN  IF IsInt(value) THEN sign \o Digits(size)
             ELSE sign \o Digits(size \div 10)
                       \o (IF size % 10 = 0 THEN <<>> ELSE <<".", DigitChars[(size % 10) + 1]>>)

\* the rows of a tab after one cell took a text; the grid supplies empty rows and cells
SetCell(data, c, r, text) ==
    LET rows == IF Len(data) >= r THEN data
                ELSE data \o [k \in 1..(r - Len(data)) |-> <<>>]
        wide == IF Len(rows[r]) > c THEN rows[r]
                ELSE rows[r] \o [k \in 1..(c + 1 - Len(rows[r])) |-> <<>>]
    IN  [rows EXCEPT ![r] = [wide EXCEPT ![c + 1] = text]]

\* lines 363-371: values().batchUpdate, the entries applied in their order
RECURSIVE BatchUpdate(_, _)
BatchUpdate(sheets, updates) ==
    IF updates = <<>> THEN sheets
    ELSE LET entry == Head(updates)
             t     == CHOOSE i \in TabsNamed(sheets, entry.sheet) : TRUE
             data  == SetCell(sheets[t].data, LetterToIndex(entry.column), entry.row,
                              CellText(entry.value))
         IN  BatchUpdate([sheets EXCEPT ![t] = [title |-> sheets[t].title, data |-> data]],
                         Tail(updates))

\* what one update_patient_data call leaves: the value returned (every path ends in a
\* return, the handler of lines 377-379 included), the batch requests issued, the
\* col_index of each field, the workbook
UpdateOutcome(returned, batches, col_indices, sheets) ==
    [raised |-> FALSE, returned |-> returned, batches |-> batches,
     col_indices |-> col_indices, sheets |-> sheets]

\* mutant: the batch is sent also when it has no entry
UpdatePatientDataEmptyWrite(sheets, sheet_name, row_number, blood_test_data) ==
    LET read == ReadSheet(sheets, sheet_name)
    IN  IF read.raised THEN UpdateOutcome(FALSE, <<>>, <<>>, sheets)
        ELSE IF read.values = <<>> THEN UpdateOutcome(FALSE, <<>>, <<>>, sheets)
        ELSE LET header_row == read.values[1]
                 updates    == BuildUpdates(1, header_row, sheet_name, row_number,
                                            blood_test_data)
             IN  IF Fails("write", sheet_name)
                 THEN UpdateOutcome(FALSE, <<updates>>, ColIndices(header_row), sheets)
                 ELSE UpdateOutcome(TRUE, <<updates>>, ColIndices(header_row),
                                    BatchUpdate(sheets, updates))

\* mutant: the row's identity cell is compared with the searched names before the write
UpdatePatientDataRechecked(sheets, sheet_name, row_number, blood_test_data) ==
    LET read == ReadSheet(sheets, sheet_name)
    IN  IF read.raised THEN UpdateOutcome(FALSE, <<>>, <<>>, sheets)
        ELSE IF read.values = <<>> THEN UpdateOutcome(FALSE, <<>>, <<>>, sheets)
        ELSE LET header_row    == read.values[1]
                 filiacion_col == FiliacionCol(header_row)
                 updates       == BuildUpdates(1, header_row, sheet_name, row_number,
                                               blood_test_data)
             IN  IF updates = <<>>
                 THEN UpdateOutcome(FALSE, <<>>, ColIndices(header_row), sheets)
                 ELSE IF /\ filiacion_col # None
                         /\ \/ row_number > Len(read.values)
                            \/ ~RowMatches(read.values[row_number], filiacion_col[1],
                                           FullName1(found.nombre, found.apellidos),
                                           FullName2(found.nombre, found.apellidos))
                 THEN UpdateOutcome(FALSE, <<>>, ColIndices(header_row), sheets)
                 ELSE UpdateOutcome(TRUE, <<updates>>, ColIndices(header_row),
                                    BatchUpdate(sheets, updates))

\* lines 318-379: update_patient_data
UpdatePatientData(sheets, sheet_name, row_number, blood_test_data) ==
    LET read == ReadSheet(sheets, sheet_name)
    IN  IF read.raised THEN UpdateOutcome(FALSE, <<>>, <<>>, sheets)
        ELSE IF read.values = <<>> THEN UpdateOutcome(FALSE, <<>>, <<>>, sheets)
        ELSE LET header_row == read.values[1]
                 updates    == BuildUpdates(1, header_row, sheet_name, row_number,
                                            blood_test_data)
             IN  IF updates = <<>>
                 THEN UpdateOutcome(FALSE, <<>>, ColIndices(header_row), sheets)
                 ELSE IF Fails("write", sheet_name)
                 THEN UpdateOutcome(FALSE, <<updates>>, ColIndices(header_row), sheets)
                 ELSE UpdateOutcome(TRUE, <<updates>>, ColIndices(header_row),
                                    BatchUpdate(sheets, updates))

(***************************************************************************)
(* Bounded inputs                                                          *)
(***************************************************************************)
MaxTabs   == 2     \* tabs in a workbook
MaxRows   == 2     \* data rows in a workbook, over all its tabs
MaxInt    == 9     \* integer field values range over -MaxInt..MaxInt
MaxTenths == 15    \* float field values range over -MaxTenths/10..MaxTenths/10
MaxCalls  == 2     \* find_patient_row calls in one run
MaxIndex  == 1000  \* column indices range over 0..MaxIndex
MaxDocs   == 2     \* documents in one validate_results call

\* tab titles, as in src/test_multi_sheet.py 44-49
TabTitles == <<"2024", "2023", "Pending", "Archive", "Old">>

ANA == <<"A","N","A">>
PAZ == <<"P","A","Z">>
Nombres   == {ANA, PAZ}
Apellidos == {PAZ}

\* a patient entered with a single name that reads like the identity header
HeaderName    == <<"f","i","l","i","a","c","i","o","n">>
SearchedNames == (Nombres \X Apellidos) \cup {<<HeaderName, <<>>>>}

\* header rows: identity column second; identity column first, in mixed case, before a
\* blank header; no identity column
HeaderIdSecond == << <<"I","D">>, FILIACION >>
HeaderIdFirst  == << <<"F","i","l","i","a","c","i","o","n"," ">>, <<" ">> >>
HeaderNoId     == << <<"I","D">>, <<"H","b">> >>
SampleHeaders  == {HeaderIdSecond, HeaderIdFirst, HeaderNoId}

\* data rows: "7" | "ANA PAZ", and the one-cell row " paz ana"
RowNameSecond == << <<"7">>, <<"A","N","A"," ","P","A","Z">> >>
RowNameFirst  == << <<" ","p","a","z"," ","a","n","a">> >>
SampleRows    == {RowNameSecond, RowNameFirst}

\* the contents a tab can have with at most n data rows: nothing at all, or a header row
\* and its data rows
RowSeqs(n) == UNION {[1..m -> SampleRows] : m \in 0..n}
TabData(n) == {<<>>} \cup {<<h>> \o rows : h \in SampleHeaders, rows \in RowSeqs(n)}
DataRows(data) == IF data = <<>> THEN 0 ELSE Len(data) - 1

\* the workbooks of k tabs with at most n data rows in all
RECURSIVE WorkbooksOf(_, _)
WorkbooksOf(k, n) ==
    IF k = 0 THEN {<<>>}
    ELSE UNION {{Append(wb, [title |-> TabTitles[k], data |-> d]) :
                    wb \in WorkbooksOf(k - 1, n - DataRows(d))}
                : d \in TabData(n)}

Workbooks == UNION {WorkbooksOf(k, MaxRows) : k \in 0..MaxTabs}

CmpStrings == {<<>>, <<"a">>, <<" ","A","\t">>, <<"b">>, <<"a"," ","b">>, <<"A"," ","B"," ">>}
CmpValues  ==
    {PyNone} \cup {PyStr(s) : s \in CmpStrings}
             \cup {PyInt(n) : n \in (-MaxInt)..MaxInt}
             \cup {PyFloat(q) : q \in (-MaxTenths)..MaxTenths}

FieldNames  == {"HEMOGLOBINA", "VIH", "error"}
LabValues   == {PyNone, PyFloat(120), PyFloat(126), PyInt(0), PyInt(1)}
ValuesOf(field) == IF field = "error" THEN {PyStr(<<"x">>)} ELSE LabValues
FieldMaps   ==
    UNION {{m \in [keys -> LabValues \cup {PyStr(<<"x">>)}] : \A f \in keys : m[f] \in ValuesOf(f)}
           : keys \in SUBSET FieldNames}
Thresholds  == {DefaultThreshold, 100}

\* header cells that hold a column label in another case, twice, or two labels at once
HbLabel      == COLUMN_MAPPING[1].label
HbHeader2    == Upper(HbLabel) \o <<" ","2">>
EoHeader     == Upper(COLUMN_MAPPING[7].label)
VihHeader    == <<"V","I","H">>
VihVhcHeader == <<"v","i","h","/","V","H","C">>
Filiacion2   == <<"f","i","l","i","a","c","i","o","n"," ","2">>

HeaderLab     == <<FILIACION, HbLabel, EoHeader, VihHeader>>
HeaderTwice   == <<HbHeader2, Filiacion2, FILIACION, HbLabel>>
HeaderShared  == <<FILIACION, VihVhcHeader>>
WriterHeaders == {HeaderLab, HeaderTwice, HeaderShared, HeaderNoId}

\* the data row "ANA PAZ" | "paz ana"
RowNameTwice == << <<"A","N","A"," ","P","A","Z">>, <<"p","a","z"," ","a","n","a">> >>

\* a tab of the writer's workbooks: nothing at all, or a header row and at most one data
\* row, which holds the name in its second cell only
WriterTabData ==
    {<<>>} \cup {<<h>> \o rows : h \in WriterHeaders, rows \in {<<>>, <<RowNameSecond>>}}
WriterWorkbooks ==
    {<<[title |-> TabTitles[1], data |-> d]>> : d \in WriterTabData}
    \cup {<<[title |-> TabTitles[1], data |-> d1], [title |-> TabTitles[2], data |-> d2]>> :
             d1 \in WriterTabData, d2 \in WriterTabData}

\* blood test results as extracted (src/models.py 9-38), with keys outside COLUMN_MAPPING
ResultsFull     == ("HEMOGLOBINA" :> PyFloat(126)) @@ ("EOSINOFILOS_TOTALES" :> PyFloat(4))
                   @@ ("VIH" :> PyInt(0)) @@ ("NOMBRE" :> PyStr(ANA))
ResultsCodes    == ("HEMOGLOBINA" :> PyNone) @@ ("EOSINOFILOS_TOTALES" :> PyInt(1))
                   @@ ("VIH" :> PyInt(1)) @@ ("VHC" :> PyInt(0))
ResultsNameOnly == ("NOMBRE" :> PyStr(ANA)) @@ ("APELLIDOS" :> PyStr(PAZ))
ResultsNulls    == ("HEMOGLOBINA" :> PyNone) @@ ("VIH" :> PyNone)
ResultsText     == ("EOSINOFILOS_TOTALES" :> PyStr(<<"0",".","4">>)) @@ ("HEMOGLOBINA" :> PyInt(13))
BloodTestMaps   == {ResultsFull, ResultsCodes, ResultsNameOnly, ResultsNulls, ResultsText}

\* the workbooks of the runs in which reads fail: tabs with or without identity column
FaultHeaders == {HeaderIdSecond, HeaderNoId}
FaultTabData(n) == {<<>>} \cup {<<h>> \o rows : h \in FaultHeaders, rows \in RowSeqs(n)}

RECURSIVE FaultWorkbooksOf(_, _)
FaultWorkbooksOf(k, n) ==
    IF k = 0 THEN {<<>>}
    ELSE UNION {{Append(wb, [title |-> TabTitles[k], data |-> d]) :
                    wb \in FaultWorkbooksOf(k - 1, n - DataRows(d))}
                : d \in FaultTabData(n)}

FaultWorkbooks == UNION {FaultWorkbooksOf(k, MaxRows) : k \in 0..MaxTabs}

\* the calls of the collaborator that raise HttpError during a run: the reads of the
\* values of any of the tabs, or the read of one header row, or the listing of the tabs
FaultSets(sheets) ==
    LET titles == {sheets[t].title : t \in 1..Len(sheets)}
    IN  (SUBSET {<<"values", title>> : title \in titles})
        \cup {{<<"header", title>>} : title \in titles}
        \cup {{<<"sheets", "">>}}

\* the documents of a validation run: extracted maps, one of them an extraction failure,
\* and the expected data found for them, if any
Filenames    == <<"a.pdf", "b.pdf", "c.pdf", "d.pdf">>
VihOnly      == ("VIH" :> PyInt(1))
ErrorMarker  == ("error" :> PyStr(<<"x">>))
ExtractedOf  == {("HEMOGLOBINA" :> PyFloat(126)) @@ ("VIH" :> PyInt(0)),
                 ("HEMOGLOBINA" :> PyFloat(120)) @@ ("VIH" :> PyInt(1)),
                 VihOnly, ErrorMarker}
ExpectedOf   == {None, Some(("HEMOGLOBINA" :> PyFloat(120)) @@ ("VIH" :> PyInt(1))),
                 Some(VihOnly)}
DocsOf(n)    ==
    {[i \in 1..n |-> [filename |-> Filenames[i], extracted |-> pairs[i][1],
                      expected |-> pairs[i][2]]] :
        pairs \in [1..n -> ExtractedOf \X ExpectedOf]}
Documents    == UNION {DocsOf(n) : n \in 0..MaxDocs}

UpdateSheetNames == {TabTitles[1], TabTitles[2]}
UpdateRowNumbers == {2, 3}

\* the workbooks of the runs in which any call of the collaborator can fail: header rows
\* with a trailing blank cell, with lab columns, and without any cell
HeaderEmpty       == <<>>
RecoveryHeaders   == {HeaderIdFirst, HeaderLab, HeaderEmpty}
RecoveryTabData   ==
    {<<>>} \cup {<<h>> \o rows : h \in RecoveryHeaders, rows \in {<<>>, <<RowNameTwice>>}}
RecoveryWorkbooks ==
    {<<[title |-> TabTitles[1], data |-> d]>> : d \in RecoveryTabData}
    \cup {<<[title |-> TabTitles[1], data |-> d1], [title |-> TabTitles[2], data |-> d2]>> :
             d1 \in RecoveryTabData, d2 \in RecoveryTabData}

\* no call of the collaborator raises during the run, or one does: the listing of the
\* tabs, or the read of the header, the read of the values or the batch write of one tab
RecoveryFaults(sheets) ==
    {{}} \cup {{<<"sheets", "">>}}
         \cup {{<<call, sheets[t].title>>} :
                  call \in {"header", "values", "write"}, t \in 1..Len(sheets)}

\* the row of another patient, and the one-tab workbooks other users of the spreadsheet
\* edit while a document is handled
OtherRow      == << <<"E","V","A"," ","S","O","L">> >>
RaceRows(n)   == UNION {[1..m -> {RowNameTwice, OtherRow}] : m \in 0..n}
RaceWorkbooks ==
    {<<[title |-> TabTitles[1], data |-> <<HeaderLab>> \o rows]>> : rows \in RaceRows(MaxRows)}

(***************************************************************************)
(* State machine                                                           *)
(***************************************************************************)
NoFind == [calls |-> 0, nombre |-> <<>>, apellidos |-> <<>>, columns |-> <<>>,
           ranges |-> <<>>, raised |-> FALSE,
           row |-> None, sheet |-> None, message |-> Message("", <<>>, <<>>)]
NoCmp  == [called |-> FALSE, expected |-> PyNone, actual |-> PyNone,
           raised |-> FALSE, score |-> RatInt(0)]
NoVal  == [called |-> FALSE, extracted |-> <<>>, expected |-> <<>>,
           threshold |-> DefaultThreshold, result |-> ValidateSingleResult(<<>>, <<>>, DefaultThreshold)]
NoCol  == [called |-> FALSE, index |-> 0, letters |-> <<>>]
NoUpd  == [called |-> FALSE, sheet_name |-> "", row_number |-> 0, blood_test_data |-> <<>>,
           raised |-> FALSE, returned |-> FALSE, batches |-> <<>>, col_indices |-> <<>>]
NoRun  == [called |-> FALSE, docs |-> <<>>, threshold |-> DefaultThreshold, results |-> <<>>]
NoRep  == [called |-> FALSE, results |-> <<>>, report |-> NoResultsMarker]

\* find_patient_row(spreadsheet_id, nombre, apellidos), on the arguments the state holds;
\* the call can be repeated
FindPatientRowCall ==
    /\ found.calls < MaxCalls
    /\ found' = [calls |-> found.calls + 1, nombre |-> found.nombre,
                 apellidos |-> found.apellidos,
                 columns |-> IF Fails("sheets", "") THEN <<>> ELSE FiliacionCols(workbook),
                 ranges |-> IF Fails("sheets", "") THEN <<>> ELSE DetectedRanges(workbook)]
                 @@ FindPatientRow(workbook, found.nombre, found.apellidos)
    /\ UNCHANGED <<workbook, failing, cmp, val, col, upd, run, rep>>

\* _calculate_field_accuracy(expected_value, actual_value)
CalculateFieldAccuracyCall ==
    /\ ~cmp.called
    /\ cmp' = [called |-> TRUE, expected |-> cmp.expected, actual |-> cmp.actual]
               @@ CalculateFieldAccuracy(cmp.expected, cmp.actual)
    /\ UNCHANGED <<workbook, failing, found, val, col, upd, run, rep>>

\* _validate_single_result(filename, extracted_data, expected_data)
ValidateSingleResultCall ==
    /\ ~val.called
    /\ val' = [val EXCEPT !.called = TRUE,
                          !.result = ValidateSingleResult(val.extracted, val.expected,
                                                          val.threshold)]
    /\ UNCHANGED <<workbook, failing, found, cmp, col, upd, run, rep>>

\* _column_index_to_letter(index)
ColumnIndexToLetterCall ==
    /\ ~col.called
    /\ col' = [col EXCEPT !.called = TRUE, !.letters = ColumnIndexToLetter(col.index)]
    /\ UNCHANGED <<workbook, failing, found, cmp, val, upd, run, rep>>

\* update_patient_data(spreadsheet_id, sheet_name, row_number, blood_test_data), on the
\* arguments the state holds
UpdatePatientDataCall ==
    /\ ~upd.called
    /\ \E outcome \in {UpdatePatientData(workbook, upd.sheet_name, upd.row_number,
                                           upd.blood_test_data)} :
           /\ upd' = [upd EXCEPT !.called = TRUE,
                                 !.raised = outcome.raised,
                                 !.returned = outcome.returned,
                                 !.batches = outcome.batches,
                                 !.col_indices = outcome.col_indices]
           /\ workbook' = outcome.sheets
    /\ UNCHANGED <<failing, found, cmp, val, col, run, rep>>

\* another user of the shared spreadsheet inserts a row below the header of a tab
InsertRow ==
    /\ ~upd.called
    /\ \E t \in 1..Len(workbook) :
          /\ workbook[t].data # <<>>
          /\ DataRows(workbook[t].data) < MaxRows
          /\ workbook' = [workbook EXCEPT
                            ![t].data = <<@[1]>> \o <<OtherRow>> \o Tail(@)]
    /\ UNCHANGED <<failing, found, cmp, val, col, upd, run, rep>>

\* another user deletes the first data row of a tab
DeleteRow ==
    /\ ~upd.called
    /\ \E t \in 1..Len(workbook) :
          /\ Len(workbook[t].data) >= 2
          /\ workbook' = [workbook EXCEPT ![t].data = <<@[1]>> \o Tail(Tail(@))]
    /\ UNCHANGED <<failing, found, cmp, val, col, upd, run, rep>>

\* another user replaces the name in the first cell of a data row
RenameRow ==
    /\ ~upd.called
    /\ \E t \in 1..Len(workbook) :
          \E r \in 2..Len(workbook[t].data) :
              /\ workbook[t].data[r][1] # OtherRow[1]
              /\ workbook' = [workbook EXCEPT ![t].data[r][1] = OtherRow[1]]
    /\ UNCHANGED <<failing, found, cmp, val, col, upd, run, rep>>

\* validate_results(extraction_results), on the documents the state holds
ValidateResultsCall ==
    /\ ~run.called
    /\ run' = [run EXCEPT !.called = TRUE,
                          !.results = ValidateResults(run.docs, run.threshold)]
    /\ UNCHANGED <<workbook, failing, found, cmp, val, col, upd, rep>>

\* generate_validation_report(validation_results), on the results of the run
GenerateValidationReportCall ==
    /\ run.called
    /\ ~rep.called
    /\ rep' = [called |-> TRUE, results |-> run.results,
               report |-> GenerateValidationReport(run.results, run.threshold)]
    /\ UNCHANGED <<workbook, failing, found, cmp, val, col, upd, run>>

\* the patient row resolver on a workbook whose reads succeed
Init ==
    /\ workbook \in Workbooks
    /\ failing = {}
    /\ \E names \in SearchedNames :
          found = [NoFind EXCEPT !.nombre = names[1], !.apellidos = names[2]]
    /\ cmp = NoCmp
    /\ val = NoVal
    /\ col = NoCol /\ upd = NoUpd /\ run = NoRun /\ rep = NoRep

Next == FindPatientRowCall

Spec == Init /\ [][Next]_vars

\* the field comparator
InitComparator ==
    /\ workbook = <<>>
    /\ failing = {}
    /\ found = NoFind
    /\ \E e \in CmpValues, a \in CmpValues :
          cmp = [NoCmp EXCEPT !.expected = e, !.actual = a]
    /\ val = NoVal
    /\ col = NoCol /\ upd = NoUpd /\ run = NoRun /\ rep = NoRep

NextComparator == CalculateFieldAccuracyCall

SpecComparator == InitComparator /\ [][NextComparator]_vars

\* the record validator
InitValidator ==
    /\ workbook = <<>>
    /\ failing = {}
    /\ found = NoFind
    /\ cmp = NoCmp
    /\ \E extracted \in FieldMaps, expected \in FieldMaps, threshold \in Thresholds :
          val = [NoVal EXCEPT !.extracted = extracted, !.expected = expected,
                              !.threshold = threshold]
    /\ col = NoCol /\ upd = NoUpd /\ run = NoRun /\ rep = NoRep

NextValidator == ValidateSingleResultCall

SpecValidator == InitValidator /\ [][NextValidator]_vars

\* the writer, with the resolver, on a workbook whose reads and writes succeed
InitWriter ==
    /\ workbook \in WriterWorkbooks
    /\ failing = {}
    /\ found = [NoFind EXCEPT !.nombre = ANA, !.apellidos = PAZ]
    /\ cmp = NoCmp
    /\ val = NoVal
    /\ col = NoCol
    /\ \E sheet_name \in UpdateSheetNames, row_number \in UpdateRowNumbers,
           blood_test_data \in BloodTestMaps :
          upd = [NoUpd EXCEPT !.sheet_name = sheet_name, !.row_number = row_number,
                              !.blood_test_data = blood_test_data]
    /\ run = NoRun /\ rep = NoRep

NextWriter == FindPatientRowCall \/ UpdatePatientDataCall

SpecWriter == InitWriter /\ [][NextWriter]_vars

\* the patient row resolver on a workbook some of whose reads fail
InitFault ==
    /\ workbook \in FaultWorkbooks
    /\ failing \in FaultSets(workbook)
    /\ found = [NoFind EXCEPT !.nombre = ANA, !.apellidos = PAZ]
    /\ cmp = NoCmp
    /\ val = NoVal
    /\ col = NoCol /\ upd = NoUpd /\ run = NoRun /\ rep = NoRep

NextFault == FindPatientRowCall

SpecFault == InitFault /\ [][NextFault]_vars

\* a validation run and its report
InitBatch ==
    /\ workbook = <<>>
    /\ failing = {}
    /\ found = NoFind
    /\ cmp = NoCmp
    /\ val = NoVal
    /\ col = NoCol
    /\ upd = NoUpd
    /\ \E docs \in Documents, threshold \in Thresholds :
          run = [NoRun EXCEPT !.docs = docs, !.threshold = threshold]
    /\ rep = NoRep

NextBatch == ValidateResultsCall \/ GenerateValidationReportCall

SpecBatch == InitBatch /\ [][NextBatch]_vars

\* the column naming
InitColumns ==
    /\ workbook = <<>>
    /\ failing = {}
    /\ found = NoFind
    /\ cmp = NoCmp
    /\ val = NoVal
    /\ \E index \in 0..MaxIndex : col = [NoCol EXCEPT !.index = index]
    /\ upd = NoUpd /\ run = NoRun /\ rep = NoRep

NextColumns == ColumnIndexToLetterCall

SpecColumns == InitColumns /\ [][NextColumns]_vars

\* the resolver and the writer on a workbook one of whose calls can fail
InitRecovery ==
    /\ workbook \in RecoveryWorkbooks
    /\ failing \in RecoveryFaults(workbook)
    /\ found = [NoFind EXCEPT !.nombre = ANA, !.apellidos = PAZ]
    /\ cmp = NoCmp
    /\ val = NoVal
    /\ col = NoCol
    /\ \E sheet_name \in UpdateSheetNames, blood_test_data \in {ResultsFull, ResultsNulls} :
          upd = [NoUpd EXCEPT !.sheet_name = sheet_name, !.row_number = FirstDataRow,
                              !.blood_test_data = blood_test_data]
    /\ run = NoRun /\ rep = NoRep

NextRecovery == FindPatientRowCall \/ UpdatePatientDataCall

SpecRecovery == InitRecovery /\ [][NextRecovery]_vars

\* the resolver and the writer on a tab that other users edit until the write
InitRace ==
    /\ workbook \in RaceWorkbooks
    /\ failing = {}
    /\ found = [NoFind EXCEPT !.nombre = ANA, !.apellidos = PAZ]
    /\ cmp = NoCmp
    /\ val = NoVal
    /\ col = NoCol
    /\ \E row_number \in UpdateRowNumbers, blood_test_data \in {ResultsFull, ResultsNulls} :
          upd = [NoUpd EXCEPT !.sheet_name = TabTitles[1], !.row_number = row_number,
                              !.blood_test_data = blood_test_data]
    /\ run = NoRun /\ rep = NoRep

NextRace ==
    FindPatientRowCall \/ InsertRow \/ DeleteRow \/ RenameRow \/ UpdatePatientDataCall

SpecRace == InitRace /\ [][NextRace]_vars

(***************************************************************************)
(* Patient row resolver: what the properties speak of                      *)
(***************************************************************************)
\* the text lower-cased and trimmed
Normalized(text) == Strip(Lower(text))

\* the two candidate names of a search
CandidateNames(nombre, apellidos) ==
    {Normalized(nombre \o <<" ">> \o apellidos), Normalized(apellidos \o <<" ">> \o nombre)}

\* the 0-based indices of the header cells that contain FILIACION, ignoring case
IdentityColumns(tab) ==
    IF tab.data = <<>> THEN {}
    ELSE {i \in 0..(Len(tab.data[1]) - 1) : Contains(Upper(tab.data[1][i + 1]), FILIACION)}

\* the identity column of a tab that has one: the leftmost such header cell
IdentityColumn(tab) ==
    CHOOSE i \in IdentityColumns(tab) : \A j \in IdentityColumns(tab) : i <= j

\* the (tab title, row number) pairs of one tab whose identity cell is one of the names
TabPairs(tab, names) ==
    IF IdentityColumns(tab) = {} THEN {}
    ELSE LET idcol == IdentityColumn(tab)
         IN  {<<tab.title, r>> : r \in
                {r \in 2..Len(tab.data) :
                    /\ Len(tab.data[r]) > idcol
                    /\ Normalized(tab.data[r][idcol + 1]) \in names}}

\* the (tab title, row number) pairs of the workbook whose identity cell is one of the
\* candidate names
MatchingPairs(nombre, apellidos) ==
    LET names == CandidateNames(nombre, apellidos)
    IN  UNION {TabPairs(workbook[t], names) : t \in 1..Len(workbook)}

SearchedPairs == MatchingPairs(found.nombre, found.apellidos)

\* C1: find_patient_row returns a row number and a tab name only when exactly one
\* (tab, row) pair of the whole workbook has an identity cell that, lower-cased and
\* trimmed, is one of the two candidate names; row and tab are both None or both set.
C1_LocationOnlyWhenUnique ==
    found.calls > 0 =>
        /\ (found.row = None) <=> (found.sheet = None)
        /\ (found.row # None \/ found.sheet # None) => Cardinality(SearchedPairs) = 1

\* a location in the second tab, below a row that does not match
C1_Witness ==
    /\ found.calls > 0
    /\ Len(workbook) = 2
    /\ found.sheet = Some(workbook[2].title)
    /\ found.row = Some(3)

\* C2: with two or more matching (tab, row) pairs, in different tabs or in one tab,
\* find_patient_row returns no row, no tab and the 'Multiple patients found' message
\* listing every matching location; it never returns the first match.
C2_AmbiguousListsEveryLocation ==
    found.calls > 0 =>
        LET pairs == SearchedPairs
        IN  Cardinality(pairs) >= 2 =>
              /\ found.row = None
              /\ found.sheet = None
              /\ found.message.kind = "Multiple patients found with same name"
              /\ {<<found.message.locations[i].sheet, found.message.locations[i].row>> :
                      i \in 1..Len(found.message.locations)} = pairs

\* two matching rows in one tab, the second tab of the workbook
C2_Witness ==
    /\ found.calls > 0
    /\ found.row = None
    /\ Len(workbook) = 2
    /\ SearchedPairs = {<<workbook[2].title, 2>>, <<workbook[2].title, 3>>}

\* C3: with tabs but no matching row (also when no tab has an identity column) the
\* result is no row, no tab and the 'not found' message naming the searched identity;
\* with zero tabs it is no row, no tab and the different message 'No sheets found'.
C3_NotFoundAndNoSheetsDistinct ==
    found.calls > 0 =>
        /\ (workbook # <<>> /\ SearchedPairs = {}) =>
              /\ found.row = None
              /\ found.sheet = None
              /\ found.message.kind = "Patient not found in any sheet"
              /\ found.message.name = Normalized(found.nombre \o <<" ">> \o found.apellidos)
        /\ workbook = <<>> =>
              /\ found.row = None
              /\ found.sheet = None
              /\ found.message.kind = "No sheets found in spreadsheet"

\* tabs with data rows, none of them with an identity column
C3_Witness ==
    /\ found.calls > 0
    /\ Len(workbook) = 2
    /\ \A t \in 1..Len(workbook) : Len(workbook[t].data) > 1 /\ IdentityColumns(workbook[t]) = {}
    /\ found.message.kind = "Patient not found in any sheet"

\* C4: find_patient_row(nombre=a, apellidos=b) and find_patient_row(nombre=b,
\* apellidos=a) return the same row number and the same tab name.
C4_NameOrderSymmetric ==
    found.calls > 0 =>
        LET swapped == FindPatientRow(workbook, found.apellidos, found.nombre)
        IN  swapped.row = found.row /\ swapped.sheet = found.sheet

\* a row stored as 'apellidos nombre' is found by the search for (nombre, apellidos)
C4_Witness ==
    /\ found.calls > 0
    /\ found.row # None
    /\ found.nombre # found.apellidos
    /\ \E t \in 1..Len(workbook) :
          /\ found.sheet = Some(workbook[t].title)
          /\ Normalized(workbook[t].data[found.row[1]][IdentityColumn(workbook[t]) + 1])
                = Normalized(found.apellidos \o <<" ">> \o found.nombre)

Hundred == RatInt(100)
Zero    == RatInt(0)

\* C6: every pair of values yields a score in [0,100] and no exception; for numbers
\* score(e, e) = 100 when e # 0, and score(0, x) is 100 when x = 0 and 0 otherwise.
C6_ScoreDefinedInRange ==
    cmp.called =>
        /\ ~cmp.raised
        /\ RatLeq(Zero, cmp.score) /\ RatLeq(cmp.score, Hundred)
        /\ (IsNum(cmp.expected) /\ cmp.actual = cmp.expected /\ NumVal(cmp.expected) # 0)
              => cmp.score = Hundred
        /\ (IsNum(cmp.expected) /\ IsNum(cmp.actual) /\ NumVal(cmp.expected) = 0)
              => cmp.score = (IF NumVal(cmp.actual) = 0 THEN Hundred ELSE Zero)

\* two numbers further apart than the expected value is large: the score is cut at 0
C6_Witness ==
    /\ cmp.called
    /\ IsNum(cmp.expected) /\ IsNum(cmp.actual)
    /\ NumVal(cmp.expected) # 0
    /\ Abs(NumVal(cmp.expected) - NumVal(cmp.actual)) > Abs(NumVal(cmp.expected))
    /\ cmp.score = Zero

\* C7: two integer codes (0/1 or an enumeration 0..9) score 100 when equal and 0 when
\* they differ, with no partial credit.
C7_IntegerCodesExactMatch ==
    (cmp.called /\ IsInt(cmp.expected) /\ IsInt(cmp.actual)
                /\ cmp.expected.n \in 0..9 /\ cmp.actual.n \in 0..9) =>
        cmp.score = (IF cmp.expected.n = cmp.actual.n THEN Hundred ELSE Zero)

\* equal after trimming surrounding whitespace and ignoring case
SameIgnoringCaseAndPadding(s1, s2) ==
    LET t1 == Strip(s1)
        t2 == Strip(s2)
    IN  /\ Len(t1) = Len(t2)
        /\ \A i \in 1..Len(t1) : LowerChar(t1[i]) = LowerChar(t2[i])

\* C8: two strings score 100 exactly when they are equal after trimming surrounding
\* whitespace and ignoring case, and 0 otherwise.
C8_StringsCaseAndPaddingInsensitive ==
    (cmp.called /\ IsStr(cmp.expected) /\ IsStr(cmp.actual)) =>
        cmp.score = (IF SameIgnoringCaseAndPadding(cmp.expected.s, cmp.actual.s)
                     THEN Hundred ELSE Zero)

\* two strings that differ both in case and in padding score 100
C8_Witness ==
    /\ cmp.called
    /\ IsStr(cmp.expected) /\ IsStr(cmp.actual)
    /\ Len(cmp.expected.s) # Len(cmp.actual.s)
    /\ Strip(cmp.expected.s) # Strip(cmp.actual.s)
    /\ cmp.score = Hundred

\* C9 as stated: validating any field map against itself gives overall accuracy 100,
\* no missing field and no extra field.
C9_SelfValidationPerfect ==
    (val.called /\ val.extracted = val.expected) =>
        /\ val.result.overall_accuracy = Hundred
        /\ val.result.missing_fields = {}
        /\ val.result.extra_fields = {}

\* C9 amended: validating against itself a field map that has at least one key and not
\* the reserved 'error' key gives overall accuracy 100, no missing and no extra field.
C9_SelfValidationOfNonEmptyMap ==
    (/\ val.called
     /\ val.extracted = val.expected
     /\ DOMAIN val.expected # {}
     /\ "error" \notin DOMAIN val.expected) =>
        /\ ~val.result.raised
        /\ val.result.overall_accuracy = Hundred
        /\ val.result.missing_fields = {}
        /\ val.result.extra_fields = {}

\* a map with a null field and a zero field validated against itself
C9_Witness ==
    /\ val.called
    /\ val.extracted = val.expected
    /\ DOMAIN val.expected = {"HEMOGLOBINA", "VIH"}
    /\ val.expected["HEMOGLOBINA"] = PyNone
    /\ val.expected["VIH"] = PyInt(0)
    /\ val.result.overall_accuracy = Hundred

\* the sum of the scores of a set of fields
RECURSIVE TotalScore(_, _)
TotalScore(scores, fields) ==
    IF fields = {} THEN Zero
    ELSE LET f == CHOOSE x \in fields : TRUE
         IN  RatAdd(scores[f], TotalScore(scores, fields \ {f}))

FieldUniverse == ((DOMAIN val.expected) \cup (DOMAIN val.extracted)) \ {"error"}

ExampleExpected ==
    [f \in {"HEMOGLOBINA", "VIH"} |-> IF f = "HEMOGLOBINA" THEN PyFloat(120) ELSE PyInt(1)]
ExampleActual ==
    [f \in {"HEMOGLOBINA", "VIH"} |-> IF f = "HEMOGLOBINA" THEN PyFloat(126) ELSE PyInt(0)]

\* C10: the overall accuracy is the arithmetic mean of the per-field scores over
\* keys(expected) + keys(actual) - {'error'}, 0 for an empty set; is_valid holds exactly
\* when the overall accuracy is >= the threshold; expected {HEMOGLOBINA: 12.0, VIH: 1}
\* against actual {HEMOGLOBINA: 12.6, VIH: 0} scores 95 and 0, overall 47.5, not valid.
C10_OverallIsMeanAndThreshold ==
    val.called =>
        /\ DOMAIN val.result.field_accuracies = FieldUniverse
        /\ \A f \in FieldUniverse :
              val.result.field_accuracies[f]
                = CalculateFieldAccuracy(Get(val.expected, f), Get(val.extracted, f)).score
        /\ FieldUniverse = {} => val.result.overall_accuracy = Zero
        /\ FieldUniverse # {} =>
              RatMul(val.result.overall_accuracy, RatInt(Cardinality(FieldUniverse)))
                = TotalScore(val.result.field_accuracies, FieldUniverse)
        /\ val.result.is_valid <=> RatLeq(RatInt(val.threshold), val.result.overall_accuracy)
        /\ (val.expected = ExampleExpected /\ val.extracted = ExampleActual
                /\ val.threshold = 80) =>
              /\ val.result.field_accuracies["HEMOGLOBINA"] = RatInt(95)
              /\ val.result.field_accuracies["VIH"] = Zero
              /\ val.result.overall_accuracy = Rat(95, 2)
              /\ ~val.result.is_valid

\* the example has been validated at the default threshold
C10_Witness ==
    /\ val.called
    /\ val.expected = ExampleExpected
    /\ val.extracted = ExampleActual
    /\ val.threshold = DefaultThreshold
    /\ ~val.result.is_valid

\* C11: a field is missing exactly when it is a key of the expected map and not a key,
\* other than 'error', of the actual map; a field is extra exactly when it is a key,
\* other than 'error', of the actual map and not a key of the expected map; no field is
\* both missing and extra.
C11_MissingAndExtraFields ==
    val.called =>
        /\ \A f \in FieldNames :
              /\ f \in val.result.missing_fields
                    <=> (f \in DOMAIN val.expected
                            /\ (f \notin DOMAIN val.extracted \/ f = "error"))
              /\ f \in val.result.extra_fields
                    <=> (f \in DOMAIN val.extracted /\ f # "error"
                            /\ f \notin DOMAIN val.expected)
        /\ val.result.missing_fields \subseteq FieldNames
        /\ val.result.extra_fields \subseteq FieldNames
        /\ val.result.missing_fields \cap val.result.extra_fields = {}

\* both maps hold 'error'; one field is missing and another one is extra
C11_Witness ==
    /\ val.called
    /\ DOMAIN val.expected = {"error", "VIH"}
    /\ DOMAIN val.extracted = {"error", "HEMOGLOBINA"}
    /\ val.result.missing_fields = {"error", "VIH"}
    /\ val.result.extra_fields = {"HEMOGLOBINA"}

(***************************************************************************)
(* Column naming: what the properties speak of                             *)
(***************************************************************************)
\* the position of a capital letter in the alphabet, A = 1 .. Z = 26
LetterRank(c) == CHOOSE i \in 1..26 : UpperAlpha[i] = c

\* a spreadsheet column name read as a bijective base-26 numeral, A = 0
RECURSIVE ColumnNumber(_)
ColumnNumber(letters) ==
    IF Len(letters) = 1 THEN LetterRank(letters[1]) - 1
    ELSE (ColumnNumber(SubSeq(letters, 1, Len(letters) - 1)) + 1) * 26
            + LetterRank(letters[Len(letters)]) - 1

\* C12: _column_index_to_letter maps 0 to A, 1 to B, 25 to Z, 26 to AA, 27 to AB, and
\* for every index the returned letters, read as a spreadsheet column name, give the
\* index back.
C12_ColumnLetterRoundTrip ==
    col.called =>
        /\ col.letters # <<>>
        /\ \A k \in 1..Len(col.letters) : col.letters[k] \in UpperLetters
        /\ ColumnNumber(col.letters) = col.index
        /\ col.index = 0  => col.letters = <<"A">>
        /\ col.index = 1  => col.letters = <<"B">>
        /\ col.index = 25 => col.letters = <<"Z">>
        /\ col.index = 26 => col.letters = <<"A", "A">>
        /\ col.index = 27 => col.letters = <<"A", "B">>

\* the first three-letter column: index 702 is AAA
C12_Witness ==
    /\ col.called
    /\ col.index = 702
    /\ col.letters = <<"A", "A", "A">>

(***************************************************************************)
(* Column lookup and write-back: what the properties speak of              *)
(***************************************************************************)
\* the text contains the fragment as a substring, ignoring case
ContainsIgnoringCase(text, frag) ==
    \E offset \in 0..(Len(text) - Len(frag)) :
        \A k \in 1..Len(frag) : LowerChar(text[offset + k]) = LowerChar(frag[k])

\* the lowest 0-based index of a header cell that contains the fragment, ignoring case
LeftmostContaining(header_row, frag) ==
    LET hits == {i \in 0..(Len(header_row) - 1) : ContainsIgnoringCase(header_row[i + 1], frag)}
    IN  IF hits = {} THEN None
        ELSE Some(CHOOSE i \in hits : \A j \in hits : i <= j)

\* the tab update_patient_data was pointed at, when the workbook has it
TargetTabs == {t \in 1..Len(workbook) : workbook[t].title = upd.sheet_name}

\* C13: the column found for a label fragment in a header row is the lowest index of a
\* header cell whose text contains the fragment ignoring case, the leftmost one when
\* several do, and 'not found' when none does; so for the identity column in
\* find_patient_row and for each field's column in update_patient_data.
C13_LeftmostHeaderCell ==
    /\ found.calls > 0 =>
          \A t \in 1..Len(workbook) :
              workbook[t].data # <<>> =>
                  found.columns[t] = LeftmostContaining(workbook[t].data[1], FILIACION)
    /\ upd.called =>
          \A t \in TargetTabs :
              workbook[t].data # <<>> =>
                  /\ Len(upd.col_indices) = Len(COLUMN_MAPPING)
                  /\ \A k \in 1..Len(COLUMN_MAPPING) :
                        upd.col_indices[k]
                          = LeftmostContaining(workbook[t].data[1], COLUMN_MAPPING[k].label)

\* a header row with two identity cells and two cells for one field, looked up by both
C13_Witness ==
    /\ found.calls > 0
    /\ upd.called
    /\ upd.sheet_name = workbook[1].title
    /\ workbook[1].data # <<>>
    /\ workbook[1].data[1] = HeaderTwice
    /\ found.columns[1] = Some(1)
    /\ upd.col_indices[1] = Some(0)
    /\ upd.col_indices[16] = None

\* the header row of the tab update_patient_data was pointed at
TargetHeader == workbook[CHOOSE t \in TargetTabs : TRUE].data[1]

\* the update_patient_data call has read a header row
HeaderWasRead ==
    /\ upd.called
    /\ TargetTabs # {}
    /\ \A t \in TargetTabs : workbook[t].data # <<>>

\* the fields of COLUMN_MAPPING, by position, whose label is found in the header row and
\* whose value in the field map is present and not null
WritableFields ==
    {k \in 1..Len(COLUMN_MAPPING) :
        /\ LeftmostContaining(TargetHeader, COLUMN_MAPPING[k].label) # None
        /\ COLUMN_MAPPING[k].key \in DOMAIN upd.blood_test_data
        /\ ~IsNone(upd.blood_test_data[COLUMN_MAPPING[k].key])}

\* the entries of the batch update_patient_data has built, none when it built no batch
BatchEntries == IF upd.batches = <<>> THEN <<>> ELSE upd.batches[1]

\* entry is the update entry of field k: found column, given row and tab, the value with
\* its type, times 1000 for a numeric EOSINOFILOS_TOTALES
IsEntryOf(entry, k) ==
    LET json_key == COLUMN_MAPPING[k].key
        value    == upd.blood_test_data[json_key]
    IN  /\ entry.sheet = upd.sheet_name
        /\ entry.row = upd.row_number
        /\ Some(ColumnNumber(entry.column))
              = LeftmostContaining(TargetHeader, COLUMN_MAPPING[k].label)
        /\ entry.value.t = value.t
        /\ entry.value.s = value.s
        /\ entry.value.n = (IF json_key = "EOSINOFILOS_TOTALES" /\ value.t \in {"int", "float"}
                            THEN value.n * 1000 ELSE value.n)

\* C14: update_patient_data builds exactly one update entry for each field of
\* COLUMN_MAPPING whose label is found in the header row and whose value is present and
\* not null, and none for any other field; the entry addresses the found column at the
\* given row of the given tab and carries the value with its type, multiplied by 1000
\* for a numeric EOSINOFILOS_TOTALES and unchanged otherwise.
C14_OneEntryPerWritableField ==
    HeaderWasRead =>
        /\ Len(BatchEntries) = Cardinality(WritableFields)
        /\ \A k \in WritableFields :
              LET position == Cardinality({j \in WritableFields : j <= k})
              IN  IsEntryOf(BatchEntries[position], k)

\* three entries: a float kept, a float times 1000, an integer code; NOMBRE not written
C14_Witness ==
    /\ HeaderWasRead
    /\ TargetHeader = HeaderLab
    /\ upd.blood_test_data = ResultsFull
    /\ Len(BatchEntries) = 3
    /\ BatchEntries[1].value = PyFloat(126)
    /\ BatchEntries[2].value = PyFloat(4000)
    /\ BatchEntries[2].column = <<"C">>
    /\ BatchEntries[3].value = PyInt(0)

\* C15: one update_patient_data call issues at most one batch write, never a batch
\* without entries, and none when no update entry results (no field matched a header,
\* every matched field is null, or the tab has no rows); it then returns False.
C15_AtMostOneBatchNoEmptyWrite ==
    upd.called =>
        /\ Len(upd.batches) <= 1
        /\ \A b \in 1..Len(upd.batches) : upd.batches[b] # <<>>
        /\ (~HeaderWasRead \/ WritableFields = {}) =>
              /\ upd.batches = <<>>
              /\ ~upd.returned
        /\ upd.returned => Len(upd.batches) = 1

\* every field whose label is in the header is null: no batch, False
C15_Witness ==
    /\ HeaderWasRead
    /\ TargetHeader = HeaderLab
    /\ upd.blood_test_data = ResultsNulls
    /\ upd.batches = <<>>
    /\ ~upd.returned

(***************************************************************************)
(* Validation run and report: what the properties speak of                 *)
(***************************************************************************)
\* the sum of the overall accuracies of the first n results given to the report
RECURSIVE AccuracyTotal(_)
AccuracyTotal(n) ==
    IF n = 0 THEN Zero
    ELSE RatAdd(rep.results[n].overall_accuracy, AccuracyTotal(n - 1))

\* C16: generate_validation_report returns the 'no results' marker for an empty
\* collection, computing no average and no rate and dividing by nothing, and a full
\* report for every non-empty collection.
C16_EmptyReportIsMarker ==
    rep.called =>
        /\ ~rep.report.raised
        /\ rep.results = <<>> =>
              /\ rep.report.kind = "error"
              /\ rep.report.summary = None
        /\ rep.results # <<>> =>
              /\ rep.report.kind = "report"
              /\ rep.report.summary # None
              /\ LET summary == rep.report.summary[1]
                     n       == Len(rep.results)
                 IN  /\ summary.total_files = n
                     /\ summary.valid_files + summary.invalid_files = n
                     /\ RatMul(summary.average_accuracy, RatInt(n)) = AccuracyTotal(n)
                     /\ RatMul(summary.success_rate, RatInt(n))
                           = RatInt(100 * summary.valid_files)
                     /\ Len(summary.detailed_results) = n

\* two documents, both skipped: the report of the empty list is the marker
C16_Witness ==
    /\ rep.called
    /\ Len(run.docs) = 2
    /\ rep.results = <<>>
    /\ rep.report.kind = "error"

\* the positions of the documents that have no 'error' key and have expected data
KeptDocs ==
    {k \in 1..Len(run.docs) :
        /\ "error" \notin DOMAIN run.docs[k].extracted
        /\ run.docs[k].expected # None}

\* C17: validate_results gives exactly one ValidationResult, in input order, for each
\* document without 'error' key and with expected data; a document with the 'error'
\* marker or without expected data is skipped and the documents after it are validated.
C17_OneResultPerKeptDocument ==
    run.called =>
        /\ Len(run.results) = Cardinality(KeptDocs)
        /\ \A k \in KeptDocs :
              LET position == Cardinality({j \in KeptDocs : j <= k})
                  doc      == run.docs[k]
                  result   == run.results[position]
              IN  /\ result.filename = doc.filename
                  /\ DOMAIN result.field_accuracies
                        = ((DOMAIN doc.extracted) \cup (DOMAIN doc.expected[1])) \ {"error"}
                  /\ \A f \in DOMAIN result.field_accuracies :
                        result.field_accuracies[f]
                          = CalculateFieldAccuracy(Get(doc.expected[1], f),
                                                   Get(doc.extracted, f)).score

\* the first document carries the 'error' marker; the second one is validated
C17_Witness ==
    /\ run.called
    /\ Len(run.docs) = 2
    /\ "error" \in DOMAIN run.docs[1].extracted
    /\ run.docs[1].expected # None
    /\ Len(run.results) = 1
    /\ run.results[1].filename = run.docs[2].filename

(***************************************************************************)
(* Numeric scores: what the properties speak of                            *)
(***************************************************************************)
\* C18: for a numeric expected e # 0 and a numeric actual a the score is
\* 100 - (|e - a| / |e|) * 100 clamped to [0,100]: it is 100 only when a = e and it is 0
\* whenever |e - a| >= |e|.
C18_RelativeDifferenceScore ==
    (cmp.called /\ IsNum(cmp.expected) /\ IsNum(cmp.actual) /\ NumVal(cmp.expected) # 0) =>
        LET distance  == Abs(NumVal(cmp.expected) - NumVal(cmp.actual))
            magnitude == Abs(NumVal(cmp.expected))
        IN  /\ ~cmp.raised
            /\ distance >= magnitude => cmp.score = Zero
            /\ distance < magnitude =>
                  /\ cmp.score.num * magnitude = 100 * (magnitude - distance) * cmp.score.den
                  /\ cmp.score.den > 0
            /\ cmp.score = Hundred => NumVal(cmp.actual) = NumVal(cmp.expected)

\* expected 1.2 and actual 0.9: a quarter off, the score is 75
C18_Witness ==
    /\ cmp.called
    /\ cmp.expected = PyFloat(12)
    /\ cmp.actual = PyFloat(9)
    /\ cmp.score = RatInt(75)

(***************************************************************************)
(* Reads that fail: what the properties speak of                           *)
(***************************************************************************)
\* the tabs whose rows can be read
ReadableTabs == {t \in 1..Len(workbook) : <<"values", workbook[t].title>> \notin failing}

\* the matching (tab title, row number) pairs of the tabs that can be read
ReadablePairs ==
    UNION {TabPairs(workbook[t], CandidateNames(found.nombre, found.apellidos)) :
              t \in ReadableTabs}

\* C19: a tab whose read fails during find_patient_row contributes no candidate, the
\* other tabs are still scanned, and the outcome is the one the candidates of the tabs
\* that could be read determine; the failure of a tab never ends the search in error.
C19_FailedTabContributesNothing ==
    (found.calls > 0 /\ <<"sheets", "">> \notin failing /\ workbook # <<>>) =>
        /\ found.message.kind # "Error searching for patient"
        /\ {<<found.message.locations[i].sheet, found.message.locations[i].row>> :
                i \in 1..Len(found.message.locations)} = ReadablePairs
        /\ ReadablePairs = {} =>
              found.row = None /\ found.message.kind = "Patient not found in any sheet"
        /\ Cardinality(ReadablePairs) = 1 =>
              /\ found.sheet # None
              /\ found.row # None
              /\ <<found.sheet[1], found.row[1]>> \in ReadablePairs
        /\ Cardinality(ReadablePairs) >= 2 =>
              found.row = None
                /\ found.message.kind = "Multiple patients found with same name"

\* the read of the first tab fails; the match in the second tab is returned
C19_Witness ==
    /\ found.calls > 0
    /\ Len(workbook) = 2
    /\ failing = {<<"values", workbook[1].title>>}
    /\ found.sheet = Some(workbook[2].title)
    /\ found.row = Some(2)

(***************************************************************************)
(* Skipped tabs: what the properties speak of                              *)
(***************************************************************************)
\* the tabs with no rows or with no identity cell in the header row
SkippedTabs ==
    {t \in 1..Len(workbook) : workbook[t].data = <<>> \/ IdentityColumns(workbook[t]) = {}}

\* the workbook without its skipped tabs, the other tabs in their order
RECURSIVE WithoutSkipped(_)
WithoutSkipped(t) ==
    IF t > Len(workbook) THEN <<>>
    ELSE (IF t \in SkippedTabs THEN <<>> ELSE <<workbook[t]>>) \o WithoutSkipped(t + 1)

\* C20: a tab with no rows, or whose header row has no cell containing the identity
\* fragment, contributes no candidate and does not stop the scan: a unique match in
\* another tab is returned wherever the skipped tab stands in the tab order.
C20_SkippedTabsContributeNothing ==
    found.calls > 0 =>
        /\ \A i \in 1..Len(found.message.locations) :
              \A t \in SkippedTabs : found.message.locations[i].sheet # workbook[t].title
        /\ Cardinality(SearchedPairs) = 1 =>
              /\ found.sheet # None
              /\ found.row # None
              /\ <<found.sheet[1], found.row[1]>> \in SearchedPairs
        /\ WithoutSkipped(1) # <<>> =>
              LET rest == FindPatientRow(WithoutSkipped(1), found.nombre, found.apellidos)
              IN  /\ rest.row = found.row
                  /\ rest.sheet = found.sheet
                  /\ rest.message = found.message

\* the first tab has a row with the name but no identity column; the match of the
\* second tab is returned
C20_Witness ==
    /\ found.calls > 0
    /\ Len(workbook) = 2
    /\ workbook[1].data # <<>>
    /\ workbook[1].data[1] = HeaderNoId
    /\ Len(workbook[1].data) > 1
    /\ workbook[1].data[2] = RowNameSecond
    /\ found.sheet = Some(workbook[2].title)
    /\ found.row # None

(***************************************************************************)
(* Row numbers and short rows: what the properties speak of                *)
(***************************************************************************)
\* the (tab title, row number) pairs find_patient_row has listed in its message
ListedPairs ==
    {<<found.message.locations[i].sheet, found.message.locations[i].row>> :
        i \in 1..Len(found.message.locations)}

\* the k-th row below the header of a tab holds one of the searched names in the
\* identity column
DataRowMatches(tab, k) ==
    LET rows  == Tail(tab.data)
        idcol == IdentityColumn(tab)
    IN  /\ Len(rows[k]) > idcol
        /\ Normalized(rows[k][idcol + 1]) \in CandidateNames(found.nombre, found.apellidos)

\* C21: the row number find_patient_row reports is the 1-based spreadsheet row: the
\* header is row 1 and is never a candidate, the k-th data row below the header is
\* reported as row k + 1, and every reported row number is >= 2.
C21_ReportedRowIsSpreadsheetRow ==
    found.calls > 0 =>
        /\ found.row # None => found.row[1] >= 2
        /\ \A pair \in ListedPairs : pair[2] >= 2
        /\ \A t \in 1..Len(workbook) :
              IdentityColumns(workbook[t]) # {} =>
                  \A k \in 1..(Len(workbook[t].data) - 1) :
                      DataRowMatches(workbook[t], k)
                          <=> <<workbook[t].title, k + 1>> \in ListedPairs

\* the second data row of a tab is reported as row 3
C21_Witness ==
    /\ found.calls > 0
    /\ Len(workbook) = 1
    /\ workbook[1].data = <<HeaderIdFirst, RowNameSecond, RowNameFirst>>
    /\ found.sheet = Some(workbook[1].title)
    /\ found.row = Some(3)

\* the rows of a tab that have no cell at the identity column
RaggedRows(tab) ==
    {r \in 2..Len(tab.data) : Len(tab.data[r]) < IdentityColumn(tab) + 1}

\* C30: a data row with fewer cells than the identity column's index plus one is never
\* a candidate and causes no error; the rows after it in the same tab are still
\* compared and can still match.
C30_RaggedRowSkipped ==
    found.calls > 0 =>
        /\ found.message.kind # "Error searching for patient"
        /\ \A t \in 1..Len(workbook) :
              IdentityColumns(workbook[t]) # {} =>
                  /\ \A r \in RaggedRows(workbook[t]) :
                        <<workbook[t].title, r>> \notin ListedPairs
                  /\ \A r \in 2..Len(workbook[t].data) :
                        (/\ \E ragged \in RaggedRows(workbook[t]) : ragged < r
                         /\ DataRowMatches(workbook[t], r - 1))
                            => <<workbook[t].title, r>> \in ListedPairs

\* a one-cell row under a header with the identity column second, and the match below it
C30_Witness ==
    /\ found.calls > 0
    /\ Len(workbook) = 1
    /\ workbook[1].data = <<HeaderIdSecond, RowNameFirst, RowNameSecond>>
    /\ RaggedRows(workbook[1]) = {2}
    /\ found.sheet = Some(workbook[1].title)
    /\ found.row = Some(3)

(***************************************************************************)
(* The cells of a batch: what the properties speak of                      *)
(***************************************************************************)
\* the field of COLUMN_MAPPING, by position, that the p-th entry of the batch comes from
FieldOfEntry(p) ==
    CHOOSE k \in WritableFields : Cardinality({j \in WritableFields : j <= k}) = p

\* the rows of a tab after a call, against its rows before: only row r can differ, and a
\* row the grid had to supply above it is empty
OnlyRowDiffers(before, after, r) ==
    /\ Len(after) >= Len(before)
    /\ \A k \in 1..Len(after) :
          k # r => after[k] = (IF k <= Len(before) THEN before[k] ELSE <<>>)

\* C22: every cell addressed by the batch that update_patient_data writes lies in the
\* given tab and in the given row; no cell of another row, the header row included, and
\* no cell of another tab is written; every entry comes from a key of COLUMN_MAPPING, so
\* a field such as NOMBRE or APELLIDOS is never written.
C22_WritesOnlyGivenRow ==
    [][(~upd.called /\ upd'.called) =>
          /\ \A b \in 1..Len(upd'.batches) :
                \A p \in 1..Len(upd'.batches[b]) :
                    LET entry == upd'.batches[b][p]
                    IN  /\ entry.sheet = upd.sheet_name
                        /\ entry.row = upd.row_number
                        /\ \E k \in 1..Len(COLUMN_MAPPING) :
                              /\ COLUMN_MAPPING[k].key \in DOMAIN upd.blood_test_data
                              /\ IsEntryOf(entry, k)
          /\ Len(workbook') = Len(workbook)
          /\ \A t \in 1..Len(workbook) :
                /\ workbook'[t].title = workbook[t].title
                /\ workbook[t].title # upd.sheet_name => workbook'[t] = workbook[t]
                /\ workbook[t].title = upd.sheet_name =>
                      /\ OnlyRowDiffers(workbook[t].data, workbook'[t].data, upd.row_number)
                      /\ workbook[t].data # <<>> => workbook'[t].data[1] = workbook[t].data[1]
       ]_vars

\* the three lab values are entered in row 2 of the second tab; the name of the field map
\* is not written, the identity cell and the first tab stay as they were
C22_Witness ==
    /\ upd.called
    /\ upd.returned
    /\ upd.blood_test_data = ResultsFull
    /\ upd.row_number = 2
    /\ Len(workbook) = 2
    /\ upd.sheet_name = workbook[2].title
    /\ workbook[1].data = <<HeaderLab, RowNameSecond>>
    /\ workbook[2].data = <<HeaderLab,
                            <<RowNameSecond[1], <<"1","2",".","6">>, <<"4","0","0">>, <<"0">> >> >>

\* C26: column positions are taken from each tab's own header row in each operation:
\* find_patient_row compares the rows of a tab at that tab's own identity index, and
\* update_patient_data addresses the columns found in the header of its target tab.
C26_ColumnsFromOwnHeader ==
    /\ found.calls > 0 =>
          \A t \in 1..Len(workbook) :
              /\ workbook[t].data # <<>> =>
                    found.columns[t] = LeftmostContaining(workbook[t].data[1], FILIACION)
              /\ {pair \in ListedPairs : pair[1] = workbook[t].title}
                    = TabPairs(workbook[t], CandidateNames(found.nombre, found.apellidos))
    /\ HeaderWasRead =>
          /\ Len(BatchEntries) = Cardinality(WritableFields)
          /\ \A p \in 1..Len(BatchEntries) :
                Some(ColumnNumber(BatchEntries[p].column))
                  = LeftmostContaining(TargetHeader, COLUMN_MAPPING[FieldOfEntry(p)].label)

\* two tabs with the identity column and the haemoglobin column at different indices:
\* the row of the second tab matches at its own identity index only, and the value goes
\* to the second tab's own haemoglobin column
C26_Witness ==
    /\ found.calls > 0
    /\ upd.called
    /\ Len(workbook) = 2
    /\ workbook[1].data # <<>> /\ workbook[1].data[1] = HeaderLab
    /\ workbook[2].data # <<>> /\ workbook[2].data[1] = HeaderTwice
    /\ found.columns = <<Some(0), Some(1)>>
    /\ ListedPairs = {<<workbook[2].title, 2>>}
    /\ upd.sheet_name = workbook[2].title
    /\ Len(BatchEntries) > 0
    /\ BatchEntries[1].column = <<"A">>
    /\ LeftmostContaining(workbook[1].data[1], HbLabel) = Some(1)

\* C29 as stated: no two entries of the batch built by one update_patient_data call
\* address the same column of the target row.
C29_OneEntryPerCell ==
    upd.called =>
        \A p \in 1..Len(BatchEntries) :
            \A q \in 1..Len(BatchEntries) :
                p # q => BatchEntries[p].column # BatchEntries[q].column

\* C29 amended: the batch holds one entry for each field whose label is found and whose
\* value is not null; two entries address the same cell exactly when the labels of their
\* two fields are first found in the same header cell.
C29_OneEntryPerField ==
    HeaderWasRead =>
        /\ Len(BatchEntries) = Cardinality(WritableFields)
        /\ \A p \in 1..Len(BatchEntries) :
              \A q \in 1..Len(BatchEntries) :
                  /\ BatchEntries[p].sheet = BatchEntries[q].sheet
                  /\ BatchEntries[p].row = BatchEntries[q].row
                  /\ (p # q /\ BatchEntries[p].column = BatchEntries[q].column)
                        <=> (/\ p # q
                             /\ LeftmostContaining(TargetHeader,
                                                   COLUMN_MAPPING[FieldOfEntry(p)].label)
                                  = LeftmostContaining(TargetHeader,
                                                       COLUMN_MAPPING[FieldOfEntry(q)].label))

\* the header cell 'vih/VHC' is the column of VIH and of VHC: two entries for cell B
C29_Witness ==
    /\ HeaderWasRead
    /\ TargetHeader = HeaderShared
    /\ upd.blood_test_data = ResultsCodes
    /\ Len(BatchEntries) = 2
    /\ BatchEntries[1].column = <<"B">> /\ BatchEntries[1].value = PyInt(1)
    /\ BatchEntries[2].column = <<"B">> /\ BatchEntries[2].value = PyInt(0)

(***************************************************************************)
(* Absent keys: what the properties speak of                               *)
(***************************************************************************)
\* the score of a field that one of the two maps lacks: 100 when the value the other
\* map holds for it is null, 0 otherwise
ScoredAsNull(field, value) ==
    /\ field \in DOMAIN val.result.field_accuracies
    /\ val.result.field_accuracies[field] = (IF IsNone(value) THEN Hundred ELSE Zero)

\* C28 as stated: a field listed in missing_fields scores 0 when its expected value is
\* non-null and 100 when it is null, a field listed in extra_fields scores 0 when its
\* actual value is non-null and 100 when it is null, and every field listed in
\* missing_fields or extra_fields has an entry in field_accuracies.
C28_AbsentKeyScoredAsNull ==
    val.called =>
        /\ \A f \in val.result.missing_fields : ScoredAsNull(f, val.expected[f])
        /\ \A f \in val.result.extra_fields : ScoredAsNull(f, val.extracted[f])

\* C28 amended: so for every listed field other than the reserved 'error' key, and such
\* a field is scored like a key with a null value; 'error' is never extra, and when it is
\* listed as missing it has no entry in field_accuracies.
C28_AbsentKeyScoredAsNullButError ==
    val.called =>
        /\ \A f \in val.result.missing_fields \ {"error"} :
              /\ ScoredAsNull(f, val.expected[f])
              /\ val.result.field_accuracies[f]
                    = CalculateFieldAccuracy(val.expected[f], PyNone).score
        /\ \A f \in val.result.extra_fields :
              /\ f # "error"
              /\ ScoredAsNull(f, val.extracted[f])
              /\ val.result.field_accuracies[f]
                    = CalculateFieldAccuracy(PyNone, val.extracted[f]).score
        /\ "error" \notin DOMAIN val.result.field_accuracies
        /\ "error" \in val.result.missing_fields <=> "error" \in DOMAIN val.expected

\* a missing field expected to be null scores 100, an extra field with the value 0
\* scores 0
C28_Witness ==
    /\ val.called
    /\ val.result.missing_fields = {"VIH"}
    /\ val.expected["VIH"] = PyNone
    /\ val.result.field_accuracies["VIH"] = Hundred
    /\ val.result.extra_fields = {"HEMOGLOBINA"}
    /\ val.extracted["HEMOGLOBINA"] = PyInt(0)
    /\ val.result.field_accuracies["HEMOGLOBINA"] = Zero

(***************************************************************************)
(* Ambiguity and reads that fail: what the properties speak of             *)
(***************************************************************************)
\* C27 as stated: whenever the searched identity matches rows at two or more (tab, row)
\* places of the workbook, find_patient_row returns no location, also when reading some
\* of the tabs fails.
C27_AmbiguousNeverLocated ==
    (found.calls > 0 /\ Cardinality(SearchedPairs) >= 2) =>
        found.row = None /\ found.sheet = None

\* C27 amended: no location is returned whenever two or more matching places lie in tabs
\* whose read succeeded; a match in a tab whose read failed is not counted, so a location
\* is returned for a workbook with several matches exactly when one of them lies in a
\* readable tab and all the others in tabs whose read failed.
C27_AmbiguousAmongReadTabs ==
    found.calls > 0 =>
        /\ Cardinality(ReadablePairs) >= 2 => (found.row = None /\ found.sheet = None)
        /\ (Cardinality(SearchedPairs) >= 2 /\ <<"sheets", "">> \notin failing) =>
              ((found.row # None /\ found.sheet # None)
                  <=> Cardinality(ReadablePairs) = 1)
        /\ (found.row # None /\ found.sheet # None) =>
              /\ ReadablePairs = {<<found.sheet[1], found.row[1]>>}
              /\ \A pair \in SearchedPairs \ ReadablePairs :
                    <<"values", pair[1]>> \in failing

\* each of the two tabs holds a match; the read of the first tab fails and the match of
\* the second tab is returned
C27_Witness ==
    /\ found.calls > 0
    /\ Len(workbook) = 2
    /\ failing = {<<"values", workbook[1].title>>}
    /\ SearchedPairs = {<<workbook[1].title, 2>>, <<workbook[2].title, 2>>}
    /\ found.sheet = Some(workbook[2].title)
    /\ found.row = Some(2)

(***************************************************************************)
(* The detected range: what the properties speak of                        *)
(***************************************************************************)
\* the 0-based indices of the cells of a header row that are not empty after trimming
FilledCells(header) == {i \in 0..(Len(header) - 1) : Strip(header[i + 1]) # <<>>}

\* the header row of a tab, without cells when the tab has no rows
HeaderOf(tab) == IF tab.data = <<>> THEN <<>> ELSE tab.data[1]

WroteToFoundLocation ==
    /\ upd.called
    /\ found.calls > 0
    /\ found.sheet = Some(upd.sheet_name)
    /\ found.row = Some(upd.row_number)

\* the identity cell of the row update_patient_data was pointed at, as the tab holds it
\* now, is none of the searched names
TargetRowIsAnotherPatient ==
    \A t \in TargetTabs :
        /\ Len(workbook[t].data) >= upd.row_number
        /\ <<workbook[t].title, upd.row_number>> \notin SearchedPairs

\* C25: update_patient_data does not compare the identity cell again: given the location
\* find_patient_row returned it writes its batch to that row number whatever the tab
\* holds there by then, so after an edit by another writer between the two calls the
\* values are entered in a row whose identity cell is not the searched patient.
C25_WriteBackNotRechecked ==
    (WroteToFoundLocation /\ HeaderWasRead) =>
        /\ upd.returned <=> WritableFields # {}
        /\ \A p \in 1..Len(BatchEntries) :
              /\ BatchEntries[p].sheet = found.sheet[1]
              /\ BatchEntries[p].row = found.row[1]
        /\ upd.returned =>
              \A t \in TargetTabs :
                  \A p \in 1..Len(BatchEntries) :
                      workbook[t].data[upd.row_number][ColumnNumber(BatchEntries[p].column) + 1]
                        = CellText(BatchEntries[p].value)

\* the patient was found in row 2, another patient's row was inserted above, and the
\* values were entered in row 2
C25_Witness ==
    /\ WroteToFoundLocation
    /\ upd.returned
    /\ upd.row_number = 2
    /\ TargetRowIsAnotherPatient
    /\ workbook[1].data[2][1] = OtherRow[1]
    /\ workbook[1].data[2][2] = <<"1","2",".","6">>
    /\ Len(workbook[1].data) = 3
    /\ workbook[1].data[3] = RowNameTwice

====
